---------------------------- MODULE Spec2Model ----------------------------
(***************************************************************************)
(* The client-side knowledge store of flowport.dev (src/README.md holds    *)
(* the TypeScript of lib/api.ts): text chunking, lexical scoring, top-K    *)
(* retrieval and the localStorage-backed store they operate on.            *)
(*                                                                         *)
(* A JavaScript string is a sequence of one-character strings.  A score    *)
(* is the exact rational [num, den] of the value the code computes in      *)
(* floating point.                                                         *)
(***************************************************************************)
EXTENDS Integers, Sequences, FiniteSets, TLC

VARIABLES
    scQuery,     \* scoreChunk: the query argument
    scContent,   \* scoreChunk: the content argument
    scScore,     \* scoreChunk: the value returned for (scQuery, scContent)
    scPrev,      \* the [content, score] pair scContent was derived from
    scPhase,     \* "input", "scored" (scScore is set), "added" (scPrev is set)
    ckContent,   \* chunkText: the content argument
    ckSize,      \* chunkText: the chunkSize argument
    ckOverlap,   \* chunkText: the chunkOverlap argument
    ck,          \* chunkText: its locals and the position of its control
    ckWindows,   \* history: the [from, to) bounds of the slices taken so far
    persisted,   \* the parsed value of localStorage[KNOWLEDGE_STORAGE_KEY]
    pendingFiles,   \* the ingestFile calls suspended at await file.text()
    pendingBuilds,  \* the autoBuildKnowledgeBase calls suspended at an await
    nextId,      \* generateId(): the next fresh identifier
    now,         \* nowIso(): the clock
    settled,     \* history: what the calls that resolved have written
    response,    \* the outcome of the call that settled last
    playground   \* the Playground page: its React state and pending work

scoreVars == <<scQuery, scContent, scScore, scPrev, scPhase>>
chunkVars == <<ckContent, ckSize, ckOverlap, ck, ckWindows>>
storeVars == <<persisted, pendingFiles, pendingBuilds, nextId, now, settled, response>>
pageVars == <<playground>>
vars == <<scQuery, scContent, scScore, scPrev, scPhase,
          ckContent, ckSize, ckOverlap, ck, ckWindows,
          persisted, pendingFiles, pendingBuilds, nextId, now, settled, response,
          playground>>

(***************************************************************************)
(* Bounds of the model                                                     *)
(***************************************************************************)
MaxQueryLen == 3
MaxContentLen == 2
MaxTextLen == 210
LenGrid == 10
MaxIds == 3
MaxPendingFiles == 1
MaxPendingBuilds == 1
MaxClock == 1

(***************************************************************************)
(* Strings                                                                 *)
(***************************************************************************)
Min(S) == CHOOSE x \in S : \A y \in S : x <= y
Max(S) == CHOOSE x \in S : \A y \in S : x >= y
Range(s) == {s[i] : i \in 1..Len(s)}
StringsUpTo(A, n) == UNION {[1..k -> A] : k \in 0..n}

\* the characters String.prototype.trim removes
Whitespace == {" ", "\n", "\r", "\t"}

UpperCase == <<"A","B","C","D","E","F","G","H","I","J","K","L","M",
               "N","O","P","Q","R","S","T","U","V","W","X","Y","Z">>
LowerCase == <<"a","b","c","d","e","f","g","h","i","j","k","l","m",
               "n","o","p","q","r","s","t","u","v","w","x","y","z">>
Digits == {"0","1","2","3","4","5","6","7","8","9"}

\* the lower-case letter of each upper-case letter
LowerOf ==
    [c \in Range(UpperCase) |->
        LowerCase[CHOOSE i \in 1..Len(UpperCase) : UpperCase[i] = c]]

toLowerChar(c) == IF c \in DOMAIN LowerOf THEN LowerOf[c] ELSE c

\* String.prototype.toLowerCase
toLowerCase(s) == [i \in 1..Len(s) |-> toLowerChar(s[i])]

trimNothing(s) == s

\* String.prototype.trim
trim(s) ==
    IF \A i \in 1..Len(s) : s[i] \in Whitespace THEN <<>>
    ELSE LET first == CHOOSE i \in 1..Len(s) :
                          s[i] \notin Whitespace /\ \A j \in 1..(i - 1) : s[j] \in Whitespace
             last == CHOOSE i \in 1..Len(s) :
                          s[i] \notin Whitespace /\ \A j \in (i + 1)..Len(s) : s[j] \in Whitespace
         IN  SubSeq(s, first, last)

\* String.prototype.slice(from, to) with 0 <= from, 0-based, to exclusive
slice(s, from, to) ==
    LET hi == IF to > Len(s) THEN Len(s) ELSE to
    IN  IF from >= hi THEN <<>> ELSE SubSeq(s, from + 1, hi)

includesWhole(s, t) == s = t

\* String.prototype.includes
includes(s, t) ==
    \E i \in 0..(Len(s) - Len(t)) : SubSeq(s, i + 1, i + Len(t)) = t

\* the character class [a-z0-9] of tokenize's regular expression
TokenChars == Range(LowerCase) \cup Digits
IsTokenChar(c) == c \in TokenChars

\* value.match(/[a-z0-9]+/g): the maximal runs of [a-z0-9], left to right;
\* each run is taken where it ends
matchTokens(v) ==
    LET endsRun(i) == IsTokenChar(v[i]) /\ (i = Len(v) \/ ~IsTokenChar(v[i + 1]))
        startOf(i) == CHOOSE j \in 1..i :
                          /\ j = 1 \/ ~IsTokenChar(v[j - 1])
                          /\ \A k \in j..i : IsTokenChar(v[k])
        runs == [i \in 1..Len(v) |-> IF endsRun(i) THEN SubSeq(v, startOf(i), i) ELSE <<>>]
    IN  SelectSeq(runs, LAMBDA m : m # <<>>)

tokenize(value) ==
    LET matches == matchTokens(toLowerCase(value))
    IN  SelectSeq(matches, LAMBDA m : m # <<>>)

(***************************************************************************)
(* Scorer                                                                  *)
(***************************************************************************)
Zero == [num |-> 0, den |-> 1]

weightedNoBonus(bonus, shared, qn, cn) ==
    [num |-> 3 * shared * cn + shared * qn, den |-> 10 * qn * cn]

weightedSwapped(bonus, shared, qn, cn) ==
    [num |-> 6 * bonus * qn * cn + shared * cn + 3 * shared * qn,
     den |-> 10 * qn * cn]

\* substringBonus * 0.6 + tokenCoverage * 0.3 + chunkCoverage * 0.1 with
\* tokenCoverage = shared / qn and chunkCoverage = shared / cn
weighted(bonus, shared, qn, cn) ==
    [num |-> 6 * bonus * qn * cn + 3 * shared * cn + shared * qn,
     den |-> 10 * qn * cn]

sharedTokensOfList(queryTokens, chunkTokens) ==
    Cardinality({i \in 1..Len(queryTokens) : queryTokens[i] \in Range(chunkTokens)})

\* the forEach over querySet counting the tokens chunkSet has
sharedTokens(queryTokens, chunkTokens) ==
    LET querySet == Range(queryTokens)
        chunkSet == Range(chunkTokens)
    IN  Cardinality({t \in querySet : t \in chunkSet})

scoreChunk(query, content) ==
    LET queryText == trim(toLowerCase(query))
        chunkText == trim(toLowerCase(content))
    IN  IF queryText = <<>> \/ chunkText = <<>> THEN Zero
        ELSE LET queryTokens == tokenize(queryText)
                 chunkTokens == tokenize(chunkText)
             IN  IF Len(queryTokens) = 0 \/ Len(chunkTokens) = 0 THEN Zero
                 ELSE LET shared == sharedTokens(queryTokens, chunkTokens)
                          substringBonus ==
                              IF includes(chunkText, queryText) THEN 1 ELSE 0
                      IN  weighted(substringBonus, shared,
                                   Cardinality(Range(queryTokens)),
                                   Cardinality(Range(chunkTokens)))

\* comparisons of two scores
ScoreLess(a, b) == a.num * b.den < b.num * a.den
ScoreEq(a, b) == a.num * b.den = b.num * a.den


(***************************************************************************)
(* Chunker                                                                 *)
(***************************************************************************)
MinChunkSize == 100
DEFAULT_CHUNK_SIZE == 750
DEFAULT_CHUNK_OVERLAP == 50

MaxOf(a, b) == IF a >= b THEN a ELSE b
MinOf(a, b) == IF a <= b THEN a ELSE b

\* value.replace(/\r\n?/g, '\n'): every "\r" becomes "\n" and a "\n" that
\* follows a "\r" is dropped with it
replaceNewlines(v) ==
    LET Dropped == "dropped"
        mapped == [i \in 1..Len(v) |->
                      IF v[i] = "\n" /\ i > 1 /\ v[i - 1] = "\r" THEN Dropped
                      ELSE IF v[i] = "\r" THEN "\n" ELSE v[i]]
    IN  SelectSeq(mapped, LAMBDA c : c # Dropped)

normaliseNewlines(value) == trim(replaceNewlines(value))

\* chunkText before it is called
ckIdle ==
    [pc |-> "input", sanitised |-> <<>>, safeChunkSize |-> 0, safeOverlap |-> 0,
     step |-> 0, index |-> 0, counter |-> 0, chunks |-> <<>>]

chunkEnterNoFloor(content, chunkSize, chunkOverlap) ==
    LET sanitised == normaliseNewlines(content)
        safeChunkSize == chunkSize
        safeOverlap == MinOf(MaxOf(chunkOverlap, 0), safeChunkSize - 1)
    IN  IF sanitised = <<>>
        THEN [ckIdle EXCEPT !.pc = "done"]
        ELSE [ckIdle EXCEPT !.pc = "loop", !.sanitised = sanitised,
                            !.safeChunkSize = safeChunkSize,
                            !.safeOverlap = safeOverlap,
                            !.step = MaxOf(1, safeChunkSize - safeOverlap)]

chunkEnterSignedOverlap(content, chunkSize, chunkOverlap) ==
    LET sanitised == normaliseNewlines(content)
        safeChunkSize == MaxOf(chunkSize, MinChunkSize)
        safeOverlap == MinOf(chunkOverlap, safeChunkSize - 1)
    IN  IF sanitised = <<>>
        THEN [ckIdle EXCEPT !.pc = "done"]
        ELSE [ckIdle EXCEPT !.pc = "loop", !.sanitised = sanitised,
                            !.safeChunkSize = safeChunkSize,
                            !.safeOverlap = safeOverlap,
                            !.step = MaxOf(1, safeChunkSize - safeOverlap)]

chunkEnterOverlapUpToSize(content, chunkSize, chunkOverlap) ==
    LET sanitised == normaliseNewlines(content)
        safeChunkSize == MaxOf(chunkSize, MinChunkSize)
        safeOverlap == MinOf(MaxOf(chunkOverlap, 0), safeChunkSize)
    IN  IF sanitised = <<>>
        THEN [ckIdle EXCEPT !.pc = "done"]
        ELSE [ckIdle EXCEPT !.pc = "loop", !.sanitised = sanitised,
                            !.safeChunkSize = safeChunkSize,
                            !.safeOverlap = safeOverlap,
                            !.step = safeChunkSize - safeOverlap]

\* chunkText up to its loop: the early return on empty text, the clamps
chunkEnter(content, chunkSize, chunkOverlap) ==
    LET sanitised == normaliseNewlines(content)
        safeChunkSize == MaxOf(chunkSize, MinChunkSize)
        safeOverlap == MinOf(MaxOf(chunkOverlap, 0), safeChunkSize - 1)
    IN  IF sanitised = <<>>
        THEN [ckIdle EXCEPT !.pc = "done"]
        ELSE [ckIdle EXCEPT !.pc = "loop", !.sanitised = sanitised,
                            !.safeChunkSize = safeChunkSize,
                            !.safeOverlap = safeOverlap,
                            !.step = MaxOf(1, safeChunkSize - safeOverlap)]

chunkIterKeepEmpty(st) ==
    LET trimmed == trim(slice(st.sanitised, st.index, st.index + st.safeChunkSize))
        pushed == [st EXCEPT !.chunks = Append(@, [id |-> st.counter, content |-> trimmed]),
                             !.counter = @ + 1]
    IN  IF ~(st.index < Len(st.sanitised)) THEN [st EXCEPT !.pc = "after"]
        ELSE IF st.index + st.safeChunkSize >= Len(st.sanitised)
             THEN [pushed EXCEPT !.pc = "after"]
             ELSE [pushed EXCEPT !.index = @ + st.step]

chunkIterBreakFirst(st) ==
    LET trimmed == trim(slice(st.sanitised, st.index, st.index + st.safeChunkSize))
        pushed == IF Len(trimmed) > 0
                  THEN [st EXCEPT !.chunks = Append(@, [id |-> st.counter, content |-> trimmed]),
                                  !.counter = @ + 1]
                  ELSE st
    IN  IF ~(st.index < Len(st.sanitised)) THEN [st EXCEPT !.pc = "after"]
        ELSE IF st.index + st.safeChunkSize >= Len(st.sanitised)
             THEN [st EXCEPT !.pc = "after"]
             ELSE [pushed EXCEPT !.index = @ + st.step]

chunkIterWithoutBreak(st) ==
    LET trimmed == trim(slice(st.sanitised, st.index, st.index + st.safeChunkSize))
        pushed == IF Len(trimmed) > 0
                  THEN [st EXCEPT !.chunks = Append(@, [id |-> st.counter, content |-> trimmed]),
                                  !.counter = @ + 1]
                  ELSE st
    IN  IF ~(st.index < Len(st.sanitised)) THEN [st EXCEPT !.pc = "after"]
        ELSE [pushed EXCEPT !.index = @ + st.step]

\* one test of the while condition and, when it holds, one run of the body
chunkIter(st) ==
    LET trimmed == trim(slice(st.sanitised, st.index, st.index + st.safeChunkSize))
        pushed == IF Len(trimmed) > 0
                  THEN [st EXCEPT !.chunks = Append(@, [id |-> st.counter, content |-> trimmed]),
                                  !.counter = @ + 1]
                  ELSE st
    IN  IF ~(st.index < Len(st.sanitised)) THEN [st EXCEPT !.pc = "after"]
        ELSE IF st.index + st.safeChunkSize >= Len(st.sanitised)
             THEN [pushed EXCEPT !.pc = "after"]
             ELSE [pushed EXCEPT !.index = @ + st.step]

\* chunkText after its loop: the whole text as one chunk when none was pushed
chunkExit(st) ==
    IF Len(st.chunks) = 0
    THEN [st EXCEPT !.chunks = <<[id |-> 0, content |-> st.sanitised]>>, !.pc = "done"]
    ELSE [st EXCEPT !.pc = "done"]

RECURSIVE chunkLoop(_)
chunkLoop(st) == IF st.pc = "loop" THEN chunkLoop(chunkIter(st)) ELSE st

\* chunkText(content, chunkSize, chunkOverlap); a chunk's id is its counter,
\* the generateId() prefix of the id is left out
chunkText(content, chunkSize, chunkOverlap) ==
    LET entered == chunkEnter(content, chunkSize, chunkOverlap)
    IN  IF entered.pc = "done" THEN entered.chunks
        ELSE chunkExit(chunkLoop(entered)).chunks

(***************************************************************************)
(* Knowledge store                                                         *)
(***************************************************************************)
\* an optional argument: <<>> when left out, <<v>> when given
Undefined == <<>>
orDefault(x, d) == IF x = Undefined THEN d ELSE x[1]

Untitled == <<"U", "n", "t", "i", "t", "l", "e", "d">>
BinaryFilePrefix == <<"[", "B", "i", "n", "a", "r", "y", " ", "f", "i", "l", "e", ":", " ">>
EmptyFilePrefix == <<"[", "E", "m", "p", "t", "y", " ", "f", "i", "l", "e", ":", " ">>
NameIsRequired == "Name is required"
BaseNotFound == "Knowledge base not found"
ContentIsRequired == "Content is required"

\* JSON.parse of the stored array; the coercions of loadStore change nothing
\* in a value that saveStore wrote
loadStore(raw) == raw

\* JSON.stringify into localStorage
saveStore(store) == store

findBaseOrFirst(store, id) ==
    IF \E i \in 1..Len(store) : store[i].id = id
    THEN CHOOSE i \in 1..Len(store) :
             store[i].id = id /\ \A j \in 1..(i - 1) : store[j].id # id
    ELSE IF store # <<>> THEN 1 ELSE 0

\* the position in store of the first base with this id, 0 when there is none
findBase(store, id) ==
    IF \E i \in 1..Len(store) : store[i].id = id
    THEN CHOOSE i \in 1..Len(store) :
             store[i].id = id /\ \A j \in 1..(i - 1) : store[j].id # id
    ELSE 0

\* createKnowledgeBase(body) on the stored value raw, with the id and the time
\* generateId() and nowIso() give
createKnowledgeBase(raw, body, id, t) ==
    LET name == trim(body.name)
    IN  IF name = <<>>
        THEN [status |-> "rejected", error |-> NameIsRequired, store |-> raw, base |-> 0, doc |-> 0]
        ELSE LET store == loadStore(raw)
                 base == [id |-> id, name |-> name, source |-> "user",
                          created_at |-> t, updated_at |-> t,
                          ready |-> FALSE, documents |-> <<>>]
             IN  [status |-> "resolved", error |-> "",
                  store |-> saveStore(Append(store, base)), base |-> id, doc |-> 0]

newDocumentBeforeChunks(id, title, filename, mediaType, content, chunkSize, chunkOverlap, t) ==
    [id |-> id, title |-> title, original_filename |-> filename,
     media_type |-> mediaType, size_bytes |-> Len(content), created_at |-> t,
     metadata |-> [chunk_size |-> chunkSize, chunk_overlap |-> chunkOverlap],
     raw_content |-> content, chunk_size |-> chunkSize, chunk_overlap |-> chunkOverlap,
     chunks |-> <<>>]

\* the document ingestText and ingestFile build
newDocument(id, title, filename, mediaType, content, chunkSize, chunkOverlap, t) ==
    [id |-> id, title |-> title, original_filename |-> filename,
     media_type |-> mediaType, size_bytes |-> Len(content), created_at |-> t,
     metadata |-> [chunk_size |-> chunkSize, chunk_overlap |-> chunkOverlap],
     raw_content |-> content, chunk_size |-> chunkSize, chunk_overlap |-> chunkOverlap,
     chunks |-> chunkText(content, chunkSize, chunkOverlap)]

pushDocumentInFront(store, b, document, t) ==
    [store EXCEPT ![b].documents = <<document>> \o @,
                  ![b].updated_at = t,
                  ![b].ready = TRUE]

\* base.documents.push(document); base.updated_at = now; base.ready = true
pushDocument(store, b, document, t) ==
    [store EXCEPT ![b].documents = Append(@, document),
                  ![b].updated_at = t,
                  ![b].ready = TRUE]

\* ingestText(id, body) on the stored value raw
ingestText(raw, id, body, docId, t) ==
    LET store == loadStore(raw)
        b == findBase(store, id)
    IN  IF b = 0
        THEN [status |-> "rejected", error |-> BaseNotFound, store |-> raw, base |-> id, doc |-> 0]
        ELSE IF trim(body.content) = <<>>
        THEN [status |-> "rejected", error |-> ContentIsRequired, store |-> raw, base |-> id, doc |-> 0]
        ELSE LET title == IF trim(body.title) = <<>> THEN Untitled ELSE trim(body.title)
                 chunkSize == MaxOf(orDefault(body.chunk_size, DEFAULT_CHUNK_SIZE), MinChunkSize)
                 chunkOverlap == MinOf(orDefault(body.chunk_overlap, DEFAULT_CHUNK_OVERLAP),
                                       chunkSize - 1)
                 document == newDocument(docId, title, <<>>, "text/plain", body.content,
                                         chunkSize, chunkOverlap, t)
             IN  [status |-> "resolved", error |-> "",
                  store |-> saveStore(pushDocument(store, b, document, t)),
                  base |-> id, doc |-> docId]

\* file.name.replace(/\.[^/.]+$/, ''): the name without its last extension
stripExtension(name) ==
    LET isDot(i) == /\ name[i] = "."
                    /\ i < Len(name)
                    /\ \A j \in (i + 1)..Len(name) : name[j] \notin {"/", "."}
    IN  IF \E i \in 1..Len(name) : isDot(i)
        THEN SubSeq(name, 1, (CHOOSE i \in 1..Len(name) : isDot(i)) - 1)
        ELSE name

\* ingestFile up to await file.text(): the call rejects, or suspends holding
\* the store it has loaded
ingestFileEnter(raw, id, file, options) ==
    LET store == loadStore(raw)
        b == findBase(store, id)
        chunkSize == MaxOf(orDefault(options.chunk_size, DEFAULT_CHUNK_SIZE), MinChunkSize)
        chunkOverlap == MinOf(orDefault(options.chunk_overlap, DEFAULT_CHUNK_OVERLAP),
                              chunkSize - 1)
    IN  IF b = 0
        THEN [status |-> "rejected", error |-> BaseNotFound]
        ELSE [status |-> "pending", id |-> id, file |-> file, store |-> store, b |-> b,
              chunkSize |-> chunkSize, chunkOverlap |-> chunkOverlap, overlapped |-> FALSE]

ingestFileResumeRaw(p, docId, t) ==
    [status |-> "resolved", error |-> "",
     store |-> saveStore(pushDocument(p.store, p.b,
                  newDocument(docId, p.file.name, p.file.name, "text/plain",
                              p.file.text, p.chunkSize, p.chunkOverlap, t), t)),
     base |-> p.id, doc |-> docId]

\* ingestFile from the settling of file.text() on, for the suspended call p
ingestFileResume(p, docId, t) ==
    LET read == IF p.file.readable THEN p.file.text
                ELSE BinaryFilePrefix \o p.file.name \o <<"]">>
        content == IF trim(read) = <<>>
                   THEN EmptyFilePrefix \o p.file.name \o <<"]">>
                   ELSE read
        stem == stripExtension(p.file.name)
        title == IF stem # <<>> THEN stem
                 ELSE IF p.file.name # <<>> THEN p.file.name ELSE Untitled
        mediaType == IF p.file.type = "" THEN "text/plain" ELSE p.file.type
        document == [newDocument(docId, title, p.file.name, mediaType, content,
                                 p.chunkSize, p.chunkOverlap, t)
                        EXCEPT !.size_bytes = IF p.file.size # 0 THEN p.file.size ELSE @,
                               !.metadata = [chunk_size |-> p.chunkSize,
                                             chunk_overlap |-> p.chunkOverlap,
                                             source |-> "file-upload"]]
    IN  [status |-> "resolved", error |-> "",
         store |-> saveStore(pushDocument(p.store, p.b, document, t)),
         base |-> p.id, doc |-> docId]

\* getKnowledgeBase(id) on the stored value raw
getKnowledgeBase(raw, id) ==
    LET store == loadStore(raw)
        b == findBase(store, id)
    IN  IF b = 0
        THEN [status |-> "rejected", error |-> BaseNotFound, base |-> id, doc |-> 0]
        ELSE [status |-> "resolved", error |-> "", base |-> id, doc |-> 0]

\* toDocumentSummary(document)
toDocumentSummary(document) ==
    [id |-> document.id, title |-> document.title,
     original_filename |-> document.original_filename,
     media_type |-> document.media_type, size_bytes |-> document.size_bytes,
     chunk_count |-> Len(document.chunks), created_at |-> document.created_at,
     metadata |-> document.metadata,
     file_available |-> document.raw_content # <<>>]

\* toDetail(base): what getKnowledgeBase resolves with
toDetail(base) ==
    [id |-> base.id, name |-> base.name, source |-> base.source,
     document_count |-> Len(base.documents),
     created_at |-> base.created_at, updated_at |-> base.updated_at,
     ready |-> base.ready,
     documents |-> [j \in 1..Len(base.documents) |->
                       toDocumentSummary(base.documents[j])]]

\* toSummary(base)
toSummary(base) ==
    [id |-> base.id, name |-> base.name, source |-> base.source,
     document_count |-> Len(base.documents),
     chunk_count |-> Cardinality(UNION {{<<j, k>> : k \in 1..Len(base.documents[j].chunks)} :
                                           j \in 1..Len(base.documents)}),
     created_at |-> base.created_at, updated_at |-> base.updated_at,
     ready |-> base.ready]

compareOldestFirst(a, b) == IF a.updated_at > b.updated_at THEN 1 ELSE -1

\* the comparator (a, b) => (a.updated_at < b.updated_at ? 1 : -1); the
\* times are ISO strings of one width, compared as the clock values they
\* were taken from
compareUpdatedAt(a, b) == IF a.updated_at < b.updated_at THEN 1 ELSE -1

\* Array.prototype.sort with compareUpdatedAt.  The comparator never answers
\* 0, so it is not a consistent comparison function and the order among
\* summaries of one updated_at is left to the engine: the outcomes are the
\* rearrangements in which each summary stands before another only where a
\* comparison of the two says so.
sortSummaries(summaries) ==
    LET n == Len(summaries)
    IN  {r \in {[k \in 1..n |-> summaries[p[k]]] : p \in Permutations(1..n)} :
            \A k, l \in 1..n :
                k < l => \/ compareUpdatedAt(r[k], r[l]) < 0
                         \/ compareUpdatedAt(r[l], r[k]) > 0}

\* listKnowledgeBases() on the stored value raw: the values it can resolve with
listKnowledgeBases(raw) ==
    LET store == loadStore(raw)
    IN  sortSummaries([i \in 1..Len(store) |-> toSummary(store[i])])

\* buildAttachment(base)
buildAttachment(base) ==
    [id |-> base.id, name |-> base.name,
     documents |-> [j \in 1..Len(base.documents) |->
                       [id |-> base.documents[j].id,
                        title |-> base.documents[j].title,
                        original_filename |-> base.documents[j].original_filename,
                        media_type |-> base.documents[j].media_type,
                        chunks |-> base.documents[j].chunks]]]

attachmentsInStoreOrder(raw, ids) ==
    LET store == loadStore(raw)
        found == SelectSeq(store, LAMBDA base : \E k \in 1..Len(ids) : ids[k] = base.id)
    IN  [k \in 1..Len(found) |-> buildAttachment(found[k])]

\* getKnowledgeBaseAttachments(ids) on the stored value raw: it resolves in
\* every case, with this value
getKnowledgeBaseAttachments(raw, ids) ==
    IF Len(ids) = 0 THEN <<>>
    ELSE LET store == loadStore(raw)
             bases == SelectSeq([k \in 1..Len(ids) |-> findBase(store, ids[k])],
                                LAMBDA b : b # 0)
         IN  [k \in 1..Len(bases) |-> buildAttachment(store[bases[k]])]

\* window.localStorage.setItem within the try of saveStore: the item takes
\* the new value, or setItem throws (the quota is used up), the item stays
\* as it was and saveStore swallows the error
setItem(old, new, stored) == IF stored THEN new ELSE old

(***************************************************************************)
(* Retrieval                                                               *)
(***************************************************************************)
DefaultTopK == 4
MaxTopK == 20

flatMapFirstDocument(documents, query) ==
    IF documents = <<>> THEN <<>>
    ELSE LET document == Head(documents)
         IN  [k \in 1..Len(document.chunks) |->
                 [document |-> [id |-> document.id, title |-> document.title],
                  chunk |-> document.chunks[k],
                  score |-> scoreChunk(query, document.chunks[k].content)]]

\* document.chunks.map(...) flattened over base.documents
RECURSIVE flatMapChunks(_, _)
flatMapChunks(documents, query) ==
    IF documents = <<>> THEN <<>>
    ELSE LET document == Head(documents)
         IN  [k \in 1..Len(document.chunks) |->
                 [document |-> [id |-> document.id, title |-> document.title],
                  chunk |-> document.chunks[k],
                  score |-> scoreChunk(query, document.chunks[k].content)]]
             \o flatMapChunks(Tail(documents), query)

entriesUnsorted(entries) == entries

compareAscending(a, b) ==
    IF ScoreLess(a.score, b.score) THEN -1
    ELSE IF ScoreLess(b.score, a.score) THEN 1 ELSE 0

\* the comparator (a, b) => b.score - a.score, by its sign
compareScores(a, b) ==
    IF ScoreLess(b.score, a.score) THEN -1
    ELSE IF ScoreLess(a.score, b.score) THEN 1 ELSE 0

sortEntriesLatestFirst(entries) ==
    LET n == Len(entries)
        rank(i) == Cardinality({j \in 1..n :
                       \/ compareScores(entries[j], entries[i]) < 0
                       \/ compareScores(entries[j], entries[i]) = 0 /\ j > i})
    IN  [k \in 1..n |-> entries[CHOOSE i \in 1..n : rank(i) = k - 1]]

\* Array.prototype.sort with compareScores: a stable sort, an entry stays
\* behind the entries before it that do not compare greater
sortEntries(entries) ==
    LET n == Len(entries)
        rank(i) == Cardinality({j \in 1..n :
                       \/ compareScores(entries[j], entries[i]) < 0
                       \/ compareScores(entries[j], entries[i]) = 0 /\ j < i})
    IN  [k \in 1..n |-> entries[CHOOSE i \in 1..n : rank(i) = k - 1]]

queryRejectingBlank(raw, id, body) ==
    IF findBase(loadStore(raw), id) = 0
    THEN [status |-> "rejected", error |-> BaseNotFound, matches |-> <<>>]
    ELSE IF trim(body.query) = <<>>
    THEN [status |-> "rejected", error |-> "Query is required", matches |-> <<>>]
    ELSE [status |-> "resolved", error |-> "", matches |-> <<>>]

\* queryKnowledgeBase(id, body) on the stored value raw
queryKnowledgeBase(raw, id, body) ==
    LET store == loadStore(raw)
        b == findBase(store, id)
        topK == MaxOf(1, MinOf(orDefault(body.top_k, DefaultTopK), MaxTopK))
        query == trim(body.query)
    IN  IF b = 0
        THEN [status |-> "rejected", error |-> BaseNotFound, matches |-> <<>>]
        ELSE IF query = <<>>
        THEN [status |-> "resolved", error |-> "", matches |-> <<>>]
        ELSE LET scored == sortEntries(SelectSeq(flatMapChunks(store[b].documents, query),
                                                 LAMBDA entry : entry.score.num > 0))
                 top == slice(scored, 0, topK)
             IN  [status |-> "resolved", error |-> "",
                  matches |-> [k \in 1..Len(top) |->
                                  [chunk_id |-> top[k].chunk.id,
                                   score |-> top[k].score,
                                   content |-> top[k].chunk.content,
                                   document_id |-> top[k].document.id,
                                   document_title |-> top[k].document.title]]]

(***************************************************************************)
(* The scorer applied to bounded strings                                   *)
(***************************************************************************)
\* two letters, white space and punctuation; a query letter and the same
\* letter of a content differ in case, so a shared token or a contained query
\* exists only through toLowerCase
QueryAlphabet == {"A", "b", " ", "?"}
ContentAlphabet == {"a", "B", " ", "?"}

\* s with t inserted after its first p characters
InsertAt(s, t, p) == SubSeq(s, 1, p) \o t \o SubSeq(s, p + 1, Len(s))

IdleScore ==
    /\ scQuery = <<>>
    /\ scContent = <<>>
    /\ scScore = Zero
    /\ scPrev = [content |-> <<>>, score |-> Zero]
    /\ scPhase = "idle"

IdleChunk ==
    /\ ckContent = <<>>
    /\ ckSize = 0
    /\ ckOverlap = 0
    /\ ck = [ckIdle EXCEPT !.pc = "idle"]
    /\ ckWindows = <<>>

\* no page is mounted
IdlePage == playground = [page |-> "none"]

IdleStore ==
    /\ persisted = <<>>
    /\ pendingFiles = <<>>
    /\ pendingBuilds = <<>>
    /\ nextId = 1
    /\ now = 0
    /\ settled = {}
    /\ response = [op |-> "none", status |-> "none", error |-> "", base |-> 0, doc |-> 0,
                   args |-> <<>>, value |-> <<>>]

InitScore ==
    /\ IdleChunk
    /\ IdleStore
    /\ IdlePage
    /\ scQuery \in StringsUpTo(QueryAlphabet, MaxQueryLen)
    /\ scContent \in StringsUpTo(ContentAlphabet, MaxContentLen)
    /\ scScore = Zero
    /\ scPrev = [content |-> <<>>, score |-> Zero]
    /\ scPhase = "input"

\* a call scoreChunk(scQuery, scContent)
Score ==
    /\ scPhase = "input"
    /\ scScore' = scoreChunk(scQuery, scContent)
    /\ scPhase' = "scored"
    /\ UNCHANGED <<scQuery, scContent, scPrev>>
    /\ UNCHANGED <<chunkVars, storeVars, pageVars>>

\* the query string is added verbatim somewhere into the scored content and
\* the new content is scored
AddQuery ==
    /\ scPhase = "scored"
    /\ \E p \in 0..Len(scContent) :
          /\ scContent' = InsertAt(scContent, scQuery, p)
          /\ scScore' = scoreChunk(scQuery, scContent')
    /\ scPrev' = [content |-> scContent, score |-> scScore]
    /\ scPhase' = "added"
    /\ UNCHANGED scQuery
    /\ UNCHANGED <<chunkVars, storeVars, pageVars>>

NextScore == Score \/ AddQuery

SpecScore == InitScore /\ [][NextScore]_vars

(***************************************************************************)
(* The chunker applied to bounded texts                                    *)
(***************************************************************************)
Fox == <<"T","h","e"," ","q","u","i","c","k"," ","b","r","o","w","n"," ",
         "f","o","x"," ","j","u","m","p","s"," ","o","v","e","r"," ",
         "t","h","e"," ","l","a","z","y"," ","d","o","g">>

\* the text of length n that repeats pattern
Fill(pattern, n) == [i \in 1..n |-> pattern[((i - 1) % Len(pattern)) + 1]]

\* one letter, n - 2 blanks, one letter
Gap(n) == [i \in 1..n |-> IF i = 1 THEN "a" ELSE IF i = n THEN "b" ELSE " "]

Patterns == {<<"a">>, <<"a", "b", " ">>, <<" ", "a", " ">>,
             <<"a", "\r", "\n", "b", "\r">>, <<" ">>}

\* the lengths up to MaxTextLen next to a multiple of LenGrid
TextLens == {n \in 0..MaxTextLen : n % LenGrid \in {0, 1, LenGrid - 1}}

ChunkTexts ==
    {Fox} \cup {Fill(p, n) : p \in Patterns, n \in TextLens}
          \cup {Gap(n) : n \in TextLens \ {0, 1}}

ChunkSizes == {10, MinChunkSize, MinChunkSize + 3}
ChunkOverlaps == {-5, 0, 40, 150}

InitChunk ==
    /\ IdleScore
    /\ IdleStore
    /\ IdlePage
    /\ ckContent \in ChunkTexts
    /\ ckSize \in ChunkSizes
    /\ ckOverlap \in ChunkOverlaps
    /\ ck = ckIdle
    /\ ckWindows = <<>>

\* chunkText is called and reaches its loop or returns []
ChunkEnter ==
    /\ ck.pc = "input"
    /\ ck' = chunkEnter(ckContent, ckSize, ckOverlap)
    /\ UNCHANGED <<ckContent, ckSize, ckOverlap, ckWindows>>
    /\ UNCHANGED <<scoreVars, storeVars, pageVars>>

\* one iteration of the while loop
ChunkIterate ==
    /\ ck.pc = "loop"
    /\ ck' = chunkIter(ck)
    /\ ckWindows' =
          IF ck.index < Len(ck.sanitised)
          THEN Append(ckWindows, [from |-> ck.index, to |-> ck.index + ck.safeChunkSize])
          ELSE ckWindows
    /\ UNCHANGED <<ckContent, ckSize, ckOverlap>>
    /\ UNCHANGED <<scoreVars, storeVars, pageVars>>

\* the code after the loop, and the return
ChunkExit ==
    /\ ck.pc = "after"
    /\ ck' = chunkExit(ck)
    /\ UNCHANGED <<ckContent, ckSize, ckOverlap, ckWindows>>
    /\ UNCHANGED <<scoreVars, storeVars, pageVars>>

NextChunk == ChunkEnter \/ ChunkIterate \/ ChunkExit

SpecChunk == InitChunk /\ [][NextChunk]_vars

\* texts of the lengths around the smallest window, and the longest ones
CalledTexts ==
    {Fox, <<>>, <<" ">>, Gap(MaxTextLen)}
        \cup {Fill(<<"a">>, n) : n \in {1, MinChunkSize - 1, MinChunkSize,
                                         MinChunkSize + 1, MaxTextLen}}

\* chunkText is called with some content, chunk size and chunk overlap
ChunkCall ==
    /\ ck.pc = "idle"
    /\ ckContent' \in CalledTexts
    /\ ckSize' \in ChunkSizes
    /\ ckOverlap' \in ChunkOverlaps
    /\ ck' = ckIdle
    /\ UNCHANGED ckWindows
    /\ UNCHANGED <<scoreVars, storeVars, pageVars>>

NextChunkCalled == ChunkCall \/ ChunkEnter \/ ChunkIterate \/ ChunkExit

\* no call of chunkText has been made
InitChunkCalled ==
    /\ IdleScore
    /\ IdleChunk
    /\ IdleStore
    /\ IdlePage

\* a call of chunkText runs on until it returns: the function is synchronous
\* and nothing else runs in between
SpecChunkFair ==
    InitChunkCalled /\ [][NextChunkCalled]_vars /\ WF_vars(ChunkEnter \/ ChunkIterate \/ ChunkExit)

(***************************************************************************)
(* The store under calls that overlap                                      *)
(***************************************************************************)
Short == <<"a", " ", "b">>
Blank == <<" ">>
\* two letters MaxTextLen - 2 blanks apart
Wide == Gap(MaxTextLen)

DefaultOptions == [chunk_size |-> Undefined, chunk_overlap |-> Undefined]

TextBody(title, content, size, overlap) ==
    [title |-> title, content |-> content, chunk_size |-> size, chunk_overlap |-> overlap]

BuildBody(name, contents, size) ==
    [name |-> name,
     knowledge_items |-> [i \in 1..Len(contents) |->
                             TextBody(<<"t">>, contents[i], Undefined, Undefined)],
     chunk_size |-> size, chunk_overlap |-> Undefined]

ReadableFile ==
    [name |-> <<"f", ".", "t", "x", "t">>, type |-> "text/plain", size |-> 3, readable |-> TRUE, text |-> Short]
UnreadableFile ==
    [name |-> <<"f">>, type |-> "", size |-> 0, readable |-> FALSE, text |-> <<>>]
BlankFile ==
    [name |-> <<>>, type |-> "", size |-> 0, readable |-> TRUE, text |-> Blank]

\* the arguments of the calls that overlap
KbBodies == {[name |-> <<"k", "b">>]}
TextBodies == {TextBody(<<"t">>, Short, Undefined, Undefined)}

\* the arguments of the calls made one after the other
SerialKbBodies == {[name |-> <<"k", "b">>], [name |-> <<" ", " ">>]}
SerialTextBodies ==
    {TextBody(<<"t">>, Short, Undefined, Undefined),
     TextBody(<<>>, Wide, <<10>>, <<-5>>),
     TextBody(<<"t">>, Blank, Undefined, Undefined)}
SerialFiles == {ReadableFile, UnreadableFile, BlankFile}
SerialFileOptions == {DefaultOptions, [chunk_size |-> <<10>>, chunk_overlap |-> <<150>>]}
SerialBuildBodies ==
    {BuildBody(<<"k", "b">>, <<Short, Wide>>, <<10>>),
     BuildBody(<<"k", "b">>, <<Short, Blank, Short>>, Undefined),
     BuildBody(<<" ">>, <<>>, Undefined)}

\* the ids a caller passes: those of the stored bases and one of no base
BaseIds == {persisted[i].id : i \in 1..Len(persisted)} \cup {0}

\* what the caller of a settled call sees: args and value are set by the
\* calls that only read
Outcome(op, r) ==
    [op |-> op, status |-> r.status, error |-> r.error, base |-> r.base, doc |-> r.doc,
     args |-> <<>>, value |-> <<>>]

\* another call has written the store while these calls were suspended
Overlapped(calls) == [i \in 1..Len(calls) |-> [calls[i] EXCEPT !.overlapped = TRUE]]

Remove(calls, i) == SubSeq(calls, 1, i - 1) \o SubSeq(calls, i + 1, Len(calls))

Init ==
    /\ IdleScore
    /\ IdleChunk
    /\ IdleStore
    /\ IdlePage

\* the clock advances between two calls
Tick ==
    /\ now < MaxClock
    /\ now' = now + 1
    /\ UNCHANGED <<persisted, pendingFiles, pendingBuilds, nextId, settled, response>>
    /\ UNCHANGED <<scoreVars, chunkVars, pageVars>>

\* a call createKnowledgeBase(body)
CreateKnowledgeBaseOf(bodies) ==
    /\ nextId <= MaxIds
    /\ \E body \in bodies :
          LET r == createKnowledgeBase(persisted, body, nextId, now)
          IN  /\ persisted' = r.store
              /\ response' = Outcome("createKnowledgeBase", r)
              /\ IF r.status = "resolved"
                 THEN /\ nextId' = nextId + 1
                      /\ settled' = settled \cup
                            {[base |-> r.base, doc |-> 0, overlapped |-> pendingFiles # <<>>]}
                      /\ pendingFiles' = Overlapped(pendingFiles)
                 ELSE UNCHANGED <<nextId, settled, pendingFiles>>
    /\ UNCHANGED <<pendingBuilds, now>>
    /\ UNCHANGED <<scoreVars, chunkVars, pageVars>>

CreateKnowledgeBase == CreateKnowledgeBaseOf(KbBodies)

\* a call ingestText(id, body)
IngestTextOf(bodies) ==
    /\ nextId <= MaxIds
    /\ \E id \in BaseIds, body \in bodies :
          LET r == ingestText(persisted, id, body, nextId, now)
          IN  /\ persisted' = r.store
              /\ response' = Outcome("ingestText", r)
              /\ IF r.status = "resolved"
                 THEN /\ nextId' = nextId + 1
                      /\ settled' = settled \cup
                            {[base |-> r.base, doc |-> r.doc, overlapped |-> pendingFiles # <<>>]}
                      /\ pendingFiles' = Overlapped(pendingFiles)
                 ELSE UNCHANGED <<nextId, settled, pendingFiles>>
    /\ UNCHANGED <<pendingBuilds, now>>
    /\ UNCHANGED <<scoreVars, chunkVars, pageVars>>

IngestText == IngestTextOf(TextBodies)

\* a call ingestFile(id, file, options) up to its await
IngestFileBeginOf(files, optionses) ==
    /\ Len(pendingFiles) < MaxPendingFiles
    /\ \E id \in BaseIds, file \in files, options \in optionses :
          LET p == ingestFileEnter(persisted, id, file, options)
          IN  IF p.status = "rejected"
              THEN /\ response' = Outcome("ingestFile",
                                     [status |-> "rejected", error |-> p.error,
                                      base |-> id, doc |-> 0])
                   /\ UNCHANGED <<pendingFiles, pendingBuilds>>
              ELSE /\ pendingFiles' = Append(pendingFiles, p)
                   /\ pendingBuilds' = Overlapped(pendingBuilds)
                   /\ UNCHANGED response
    /\ UNCHANGED <<persisted, nextId, now, settled>>
    /\ UNCHANGED <<scoreVars, chunkVars, pageVars>>

IngestFileBegin == IngestFileBeginOf({ReadableFile}, {DefaultOptions})

\* file.text() settles and a suspended ingestFile runs to its end
IngestFileEnd ==
    /\ nextId <= MaxIds
    /\ \E i \in 1..Len(pendingFiles) :
          LET p == pendingFiles[i]
              r == ingestFileResume(p, nextId, now)
          IN  /\ persisted' = r.store
              /\ response' = Outcome("ingestFile", r)
              /\ settled' = settled \cup
                    {[base |-> r.base, doc |-> r.doc, overlapped |-> p.overlapped]}
              /\ pendingFiles' = Overlapped(Remove(pendingFiles, i))
    /\ nextId' = nextId + 1
    /\ UNCHANGED <<pendingBuilds, now>>
    /\ UNCHANGED <<scoreVars, chunkVars, pageVars>>

\* a call autoBuildKnowledgeBase(body) up to await createKnowledgeBase(...)
AutoBuildBeginOf(bodies) ==
    /\ nextId <= MaxIds
    /\ Len(pendingBuilds) < MaxPendingBuilds
    /\ \E body \in bodies :
          LET r == createKnowledgeBase(persisted, [name |-> body.name], nextId, now)
          IN  /\ persisted' = r.store
              /\ IF r.status = "resolved"
                 THEN /\ nextId' = nextId + 1
                      /\ pendingBuilds' = Append(pendingBuilds,
                            [created |-> r.base, body |-> body,
                             items |-> body.knowledge_items, docs |-> {},
                             overlapped |-> pendingFiles # <<>>])
                      /\ pendingFiles' = Overlapped(pendingFiles)
                      /\ UNCHANGED response
                 ELSE /\ response' = Outcome("autoBuildKnowledgeBase", r)
                      /\ UNCHANGED <<nextId, pendingBuilds, pendingFiles>>
    /\ UNCHANGED <<now, settled>>
    /\ UNCHANGED <<scoreVars, chunkVars, pageVars>>

AutoBuildBegin == AutoBuildBeginOf({BuildBody(<<"k", "b">>, <<Short, Short>>, Undefined)})

AutoBuildIngestSkipping ==
    /\ nextId <= MaxIds
    /\ \E i \in 1..Len(pendingBuilds) :
          LET b == pendingBuilds[i]
              item == Head(b.items)
              r == ingestText(persisted, b.created,
                     [title |-> item.title, content |-> item.content,
                      chunk_size |-> IF item.chunk_size # Undefined
                                     THEN item.chunk_size ELSE b.body.chunk_size,
                      chunk_overlap |-> IF item.chunk_overlap # Undefined
                                        THEN item.chunk_overlap ELSE b.body.chunk_overlap],
                     nextId, now)
          IN  /\ b.items # <<>>
              /\ persisted' = r.store
              /\ IF r.status = "resolved"
                 THEN /\ nextId' = nextId + 1
                      /\ pendingBuilds' =
                            [pendingBuilds EXCEPT
                               ![i].items = Tail(@),
                               ![i].docs = @ \cup {r.doc},
                               ![i].overlapped = @ \/ pendingFiles # <<>>]
                      /\ pendingFiles' = Overlapped(pendingFiles)
                      /\ UNCHANGED response
                 ELSE /\ pendingBuilds' = [pendingBuilds EXCEPT ![i].items = Tail(@)]
                      /\ UNCHANGED <<response, nextId, pendingFiles>>
    /\ UNCHANGED <<now, settled>>
    /\ UNCHANGED <<scoreVars, chunkVars, pageVars>>

\* a suspended autoBuildKnowledgeBase resumes and ingests its next item
AutoBuildIngest ==
    /\ nextId <= MaxIds
    /\ \E i \in 1..Len(pendingBuilds) :
          LET b == pendingBuilds[i]
              item == Head(b.items)
              r == ingestText(persisted, b.created,
                     [title |-> item.title, content |-> item.content,
                      chunk_size |-> IF item.chunk_size # Undefined
                                     THEN item.chunk_size ELSE b.body.chunk_size,
                      chunk_overlap |-> IF item.chunk_overlap # Undefined
                                        THEN item.chunk_overlap ELSE b.body.chunk_overlap],
                     nextId, now)
          IN  /\ b.items # <<>>
              /\ persisted' = r.store
              /\ IF r.status = "resolved"
                 THEN /\ nextId' = nextId + 1
                      /\ pendingBuilds' =
                            [pendingBuilds EXCEPT
                               ![i].items = Tail(@),
                               ![i].docs = @ \cup {r.doc},
                               ![i].overlapped = @ \/ pendingFiles # <<>>]
                      /\ pendingFiles' = Overlapped(pendingFiles)
                      /\ UNCHANGED response
                 ELSE /\ response' = Outcome("autoBuildKnowledgeBase", r)
                      /\ pendingBuilds' = Remove(pendingBuilds, i)
                      /\ UNCHANGED <<nextId, pendingFiles>>
    /\ UNCHANGED <<now, settled>>
    /\ UNCHANGED <<scoreVars, chunkVars, pageVars>>

\* a suspended autoBuildKnowledgeBase has ingested every item and returns
\* getKnowledgeBase(created.id)
AutoBuildEnd ==
    /\ \E i \in 1..Len(pendingBuilds) :
          LET b == pendingBuilds[i]
              r == getKnowledgeBase(persisted, b.created)
          IN  /\ b.items = <<>>
              /\ response' = Outcome("autoBuildKnowledgeBase", r)
              /\ pendingBuilds' = Remove(pendingBuilds, i)
              /\ settled' =
                    IF r.status = "resolved"
                    THEN settled \cup
                           {[base |-> b.created, doc |-> d, overlapped |-> b.overlapped] :
                               d \in b.docs \cup {0}}
                    ELSE settled
    /\ UNCHANGED <<persisted, pendingFiles, nextId, now>>
    /\ UNCHANGED <<scoreVars, chunkVars, pageVars>>

Next ==
    \/ Tick
    \/ CreateKnowledgeBase
    \/ IngestText
    \/ IngestFileBegin
    \/ IngestFileEnd
    \/ AutoBuildBegin
    \/ AutoBuildIngest
    \/ AutoBuildEnd

Spec == Init /\ [][Next]_vars

\* no call is suspended: the caller has awaited every call it made
Idle == pendingFiles = <<>> /\ pendingBuilds = <<>>

SerialCreateKnowledgeBase == Idle /\ CreateKnowledgeBaseOf(SerialKbBodies)
SerialIngestText == Idle /\ IngestTextOf(SerialTextBodies)
SerialIngestFileBegin == Idle /\ IngestFileBeginOf(SerialFiles, SerialFileOptions)
SerialAutoBuildBegin == Idle /\ AutoBuildBeginOf(SerialBuildBodies)

\* the calls made one after the other, each awaited before the next
NextSerial ==
    \/ Tick
    \/ SerialCreateKnowledgeBase
    \/ SerialIngestText
    \/ SerialIngestFileBegin
    \/ IngestFileEnd
    \/ SerialAutoBuildBegin
    \/ AutoBuildIngest
    \/ AutoBuildEnd

SpecSerial == Init /\ [][NextSerial]_vars

(***************************************************************************)
(* Queries on stored texts                                                 *)
(***************************************************************************)
Flowport == <<"F","l","o","w","p","o","r","t"," ","r","o","u","t","e","s"," ","i","n","f","e","r","e","n","c","e"," ","c","a","l","l","s",".">>
Inference == <<"i","n","f","e","r","e","n","c","e">>
KnowledgeBaseText == <<"A"," ","k","n","o","w","l","e","d","g","e"," ","b","a","s","e"," ","s","t","o","r","e","s"," ","t","e","x","t",".">>
KnowledgeOnly == <<"S","h","a","r","e","d"," ","k","n","o","w","l","e","d","g","e",".">>
KnowledgeBaseQuery == <<"k","n","o","w","l","e","d","g","e"," ","b","a","s","e">>
FoxQuery == <<"F", "o", "x">>
Pad(text, n) == text \o [i \in 1..(n - Len(text)) |-> " "]
\* three windows of the minimum size, blank but for their first words
Foxes ==
    Pad(<<"f","o","x">>, MinChunkSize)
    \o Pad(<<"f","o","x"," ","d","e","n">>, MinChunkSize)
    \o Pad(<<"a"," ","f","o","x">>, MaxTextLen - 2 * MinChunkSize)

QueryKbBodies == {[name |-> <<"k", "b">>]}
QueryTextBodies ==
    {TextBody(<<"t">>, c, <<MinChunkSize>>, <<0>>) :
        c \in {Flowport, KnowledgeBaseText, KnowledgeOnly, Foxes}}

QueryBodies ==
    {[query |-> Inference, top_k |-> Undefined],
     [query |-> KnowledgeBaseQuery, top_k |-> Undefined],
     [query |-> KnowledgeBaseQuery, top_k |-> <<25>>],
     [query |-> FoxQuery, top_k |-> Undefined],
     [query |-> FoxQuery, top_k |-> <<2>>],
     [query |-> FoxQuery, top_k |-> <<0>>],
     [query |-> <<" ">>, top_k |-> Undefined],
     [query |-> <<"?">>, top_k |-> <<2>>],
     [query |-> <<"A">>, top_k |-> Undefined],
     [query |-> <<>>, top_k |-> <<5>>]}

QueryCreateKnowledgeBase == CreateKnowledgeBaseOf(QueryKbBodies)
QueryIngestText == IngestTextOf(QueryTextBodies)

\* a call queryKnowledgeBase(id, body)
QueryKnowledgeBaseOf(bodies) ==
    /\ \E id \in BaseIds, body \in bodies :
          LET r == queryKnowledgeBase(persisted, id, body)
          IN  response' = [op |-> "queryKnowledgeBase", status |-> r.status,
                           error |-> r.error, base |-> id, doc |-> 0,
                           args |-> body, value |-> r.matches]
    /\ UNCHANGED <<persisted, pendingFiles, pendingBuilds, nextId, now, settled>>
    /\ UNCHANGED <<scoreVars, chunkVars, pageVars>>

QueryKnowledgeBase == QueryKnowledgeBaseOf(QueryBodies)

NextQuery == QueryCreateKnowledgeBase \/ QueryIngestText \/ QueryKnowledgeBase

SpecQuery == Init /\ [][NextQuery]_vars

(***************************************************************************)
(* Every call, one after the other, on a storage whose writes can fail     *)
(***************************************************************************)
StorageKbBodies == SerialKbBodies
StorageTextBodies ==
    {TextBody(<<"t">>, Short, Undefined, Undefined),
     TextBody(<<"t">>, Blank, Undefined, Undefined)}
StorageFiles == {ReadableFile, BlankFile}
StorageQueryBodies ==
    {[query |-> <<>>, top_k |-> Undefined], [query |-> <<"a">>, top_k |-> Undefined]}

\* a call createKnowledgeBase(body) whose write is stored or fails
StorageCreateKnowledgeBase ==
    /\ Idle
    /\ nextId <= MaxIds
    /\ \E body \in StorageKbBodies, stored \in BOOLEAN :
          LET r == createKnowledgeBase(persisted, body, nextId, now)
          IN  /\ persisted' = setItem(persisted, r.store, stored)
              /\ response' = [Outcome("createKnowledgeBase", r) EXCEPT !.args = body]
              /\ nextId' = IF r.status = "resolved" THEN nextId + 1 ELSE nextId
    /\ UNCHANGED <<pendingFiles, pendingBuilds, now, settled>>
    /\ UNCHANGED <<scoreVars, chunkVars, pageVars>>

\* a call ingestText(id, body) whose write is stored or fails
StorageIngestText ==
    /\ Idle
    /\ nextId <= MaxIds
    /\ \E id \in BaseIds, body \in StorageTextBodies, stored \in BOOLEAN :
          LET r == ingestText(persisted, id, body, nextId, now)
          IN  /\ persisted' = setItem(persisted, r.store, stored)
              /\ response' = [Outcome("ingestText", r) EXCEPT !.args = body]
              /\ nextId' = IF r.status = "resolved" THEN nextId + 1 ELSE nextId
    /\ UNCHANGED <<pendingFiles, pendingBuilds, now, settled>>
    /\ UNCHANGED <<scoreVars, chunkVars, pageVars>>

StorageIngestFileBegin == Idle /\ IngestFileBeginOf(StorageFiles, {DefaultOptions})

\* file.text() settles and the suspended ingestFile runs to its end; its
\* write is stored or fails
StorageIngestFileEnd ==
    /\ nextId <= MaxIds
    /\ pendingFiles # <<>>
    /\ \E stored \in BOOLEAN :
          LET r == ingestFileResume(pendingFiles[1], nextId, now)
          IN  /\ persisted' = setItem(persisted, r.store, stored)
              /\ response' = [Outcome("ingestFile", r)
                                 EXCEPT !.args = pendingFiles[1].file]
    /\ pendingFiles' = Tail(pendingFiles)
    /\ nextId' = nextId + 1
    /\ UNCHANGED <<pendingBuilds, now, settled>>
    /\ UNCHANGED <<scoreVars, chunkVars, pageVars>>

\* a call getKnowledgeBase(id)
StorageGetKnowledgeBase ==
    /\ Idle
    /\ \E id \in BaseIds :
          LET r == getKnowledgeBase(persisted, id)
              b == findBase(loadStore(persisted), id)
          IN  response' = [op |-> "getKnowledgeBase", status |-> r.status,
                           error |-> r.error, base |-> id, doc |-> 0,
                           args |-> <<>>,
                           value |-> IF b = 0 THEN <<>> ELSE <<toDetail(persisted[b])>>]
    /\ UNCHANGED <<persisted, pendingFiles, pendingBuilds, nextId, now, settled>>
    /\ UNCHANGED <<scoreVars, chunkVars, pageVars>>

StorageQueryKnowledgeBase == Idle /\ QueryKnowledgeBaseOf(StorageQueryBodies)

NextStorage ==
    \/ StorageCreateKnowledgeBase
    \/ StorageIngestText
    \/ StorageIngestFileBegin
    \/ StorageIngestFileEnd
    \/ StorageGetKnowledgeBase
    \/ StorageQueryKnowledgeBase

SpecStorage == Init /\ [][NextStorage]_vars

(***************************************************************************)
(* The calls that read the whole store                                     *)
(***************************************************************************)
ReadKbBodies == {[name |-> <<"k", "b">>]}
ReadTextBodies ==
    {TextBody(<<"t">>, Short, Undefined, Undefined),
     TextBody(<<"t">>, Foxes, <<MinChunkSize>>, <<0>>)}

\* the id lists a caller passes: up to two ids, of stored bases or of none,
\* in any order and with repetition, alone or behind an id of no base
ReadIdLists ==
    LET lists == UNION {[1..n -> BaseIds] : n \in 0..2}
    IN  lists \cup {<<0>> \o ids : ids \in lists}

ReadCreateKnowledgeBase == CreateKnowledgeBaseOf(ReadKbBodies)
ReadIngestText == IngestTextOf(ReadTextBodies)

\* a call listKnowledgeBases()
ListKnowledgeBases ==
    /\ \E summaries \in listKnowledgeBases(persisted) :
          response' = [op |-> "listKnowledgeBases", status |-> "resolved",
                       error |-> "", base |-> 0, doc |-> 0,
                       args |-> <<>>, value |-> summaries]
    /\ UNCHANGED <<persisted, pendingFiles, pendingBuilds, nextId, now, settled>>
    /\ UNCHANGED <<scoreVars, chunkVars, pageVars>>

\* a call getKnowledgeBaseAttachments(ids)
GetKnowledgeBaseAttachments ==
    /\ \E ids \in ReadIdLists :
          response' = [op |-> "getKnowledgeBaseAttachments", status |-> "resolved",
                       error |-> "", base |-> 0, doc |-> 0,
                       args |-> ids,
                       value |-> getKnowledgeBaseAttachments(persisted, ids)]
    /\ UNCHANGED <<persisted, pendingFiles, pendingBuilds, nextId, now, settled>>
    /\ UNCHANGED <<scoreVars, chunkVars, pageVars>>

NextRead ==
    \/ Tick
    \/ ReadCreateKnowledgeBase
    \/ ReadIngestText
    \/ ListKnowledgeBases
    \/ GetKnowledgeBaseAttachments

SpecRead == Init /\ [][NextRead]_vars

(***************************************************************************)
(* The store of an earlier session under calls that overlap                *)
(***************************************************************************)
\* what localStorage holds when the page is loaded again: two bases that
\* createKnowledgeBase saved in an earlier session
EarlierStore ==
    createKnowledgeBase(
        createKnowledgeBase(<<>>, [name |-> <<"k", "b">>], -1, 0).store,
        [name |-> <<"k", "b">>], -2, 0).store

InitReloaded ==
    /\ IdleScore
    /\ IdleChunk
    /\ IdlePage
    /\ persisted = EarlierStore
    /\ pendingFiles = <<>>
    /\ pendingBuilds = <<>>
    /\ nextId = 1
    /\ now = 0
    /\ settled = {}
    /\ response = [op |-> "none", status |-> "none", error |-> "", base |-> 0, doc |-> 0,
                   args |-> <<>>, value |-> <<>>]

SpecReloaded == InitReloaded /\ [][Next]_vars

(***************************************************************************)
(* Properties of the scorer                                                *)
(***************************************************************************)
\* the set of the runs of ASCII letters and digits of the lowercased text,
\* every other character a delimiter
RECURSIVE Runs(_, _)
Runs(v, cur) ==
    IF v = <<>> THEN (IF cur = <<>> THEN {} ELSE {cur})
    ELSE IF IsTokenChar(Head(v)) THEN Runs(Tail(v), Append(cur, Head(v)))
    ELSE (IF cur = <<>> THEN {} ELSE {cur}) \cup Runs(Tail(v), <<>>)

TokenSetOf(s) == Runs(toLowerCase(s), <<>>)

\* s without its leading and trailing white space
RECURSIVE Stripped(_)
Stripped(s) ==
    IF s = <<>> THEN s
    ELSE IF Head(s) \in Whitespace THEN Stripped(Tail(s))
    ELSE IF s[Len(s)] \in Whitespace THEN Stripped(SubSeq(s, 1, Len(s) - 1))
    ELSE s

\* t occurs in s as a contiguous substring
Contains(s, t) ==
    \E i \in 0..Len(s) : /\ i + Len(t) <= Len(s)
                         /\ \A k \in 1..Len(t) : s[i + k] = t[k]

\* the lowercased, trimmed text of s
Folded(s) == Stripped(toLowerCase(s))

\* C3: for all query strings and all chunk contents, scoreChunk(query,
\* content) is at least 0 and at most 1.
C3_ScoreBounds ==
    scPhase # "input" =>
        /\ scScore.den > 0
        /\ 0 <= scScore.num
        /\ scScore.num <= scScore.den

\* a query and a content that score exactly 1
C3_Witness ==
    /\ scPhase = "scored"
    /\ scScore.num = scScore.den

\* C4: scoreChunk returns 0 when the query or the content is empty after
\* lowercasing and trimming or has no alphanumeric token, and otherwise
\* 0.6*bonus + 0.3*shared/|distinct query tokens| + 0.1*shared/|distinct
\* chunk tokens|, shared the number of distinct query tokens occurring in the
\* chunk and bonus 1 exactly when the folded content contains the folded query.
C4_ScoreFormula ==
    scPhase # "input" =>
        LET q == Folded(scQuery)
            c == Folded(scContent)
            QT == TokenSetOf(scQuery)
            CT == TokenSetOf(scContent)
            qn == Cardinality(QT)
            cn == Cardinality(CT)
            shared == Cardinality(QT \cap CT)
            bonus == IF Contains(c, q) THEN 1 ELSE 0
        IN  IF q = <<>> \/ c = <<>> \/ QT = {} \/ CT = {}
            THEN scScore.num = 0
            ELSE scScore.num * (10 * qn * cn)
                   = scScore.den * (6 * bonus * qn * cn + 3 * shared * cn + shared * qn)

\* the query has two distinct tokens, the content has one of them among
\* others, and the content contains the query
C4_Witness ==
    /\ scPhase # "input"
    /\ Cardinality(TokenSetOf(scQuery)) = 2
    /\ Cardinality(TokenSetOf(scQuery) \cap TokenSetOf(scContent)) = 1
    /\ Cardinality(TokenSetOf(scContent)) = 2
    /\ Contains(Folded(scContent), Folded(scQuery))

\* C5 as stated: for every query and every content not containing the query
\* as a substring, the content with the query added verbatim scores strictly
\* higher for that query.
C5_AddQueryRaisesScore ==
    (scPhase = "added" /\ ~Contains(scPrev.content, scQuery))
        => ScoreLess(scPrev.score, scScore)

\* C5 amended: for every query with at least one alphanumeric token and every
\* content whose lowercased, trimmed text does not contain the lowercased,
\* trimmed query, the content with the query added verbatim scores strictly
\* higher for that query.
C5_AddQueryRaisesScoreOfTokenQuery ==
    (/\ scPhase = "added"
     /\ TokenSetOf(scQuery) # {}
     /\ ~Contains(Folded(scPrev.content), Folded(scQuery)))
        => ScoreLess(scPrev.score, scScore)

\* the original content shares a token with the query without containing it
C5_Witness ==
    /\ scPhase = "added"
    /\ TokenSetOf(scQuery) # {}
    /\ ~Contains(Folded(scPrev.content), Folded(scQuery))
    /\ scPrev.score.num > 0
    /\ ScoreLess(scPrev.score, scScore)

(***************************************************************************)
(* Properties of the chunker                                               *)
(***************************************************************************)
\* the window size and the overlap the requested values stand for
EffectiveSize(S) == IF S < 100 THEN 100 ELSE S
EffectiveOverlap(S, O) ==
    IF O < 0 THEN 0 ELSE IF O >= EffectiveSize(S) THEN EffectiveSize(S) - 1 ELSE O

\* the characters of T at the 0-based positions from .. to - 1
WindowText(T, w) ==
    [i \in 1..((IF w.to > Len(T) THEN Len(T) ELSE w.to) - w.from) |-> T[w.from + i]]

IsBlank(s) == \A i \in 1..Len(s) : s[i] \in Whitespace

\* t is s without its leading and trailing white space
IsTrimOf(t, s) ==
    \E a \in 0..(Len(s) - Len(t)) :
        /\ \A i \in 1..Len(t) : t[i] = s[a + i]
        /\ \A i \in 1..a : s[i] \in Whitespace
        /\ \A i \in (a + Len(t) + 1)..Len(s) : s[i] \in Whitespace
        /\ t # <<>> => (t[1] \notin Whitespace /\ t[Len(t)] \notin Whitespace)

\* chunkText has left its loop on a non-empty normalized text
Chunked == ck.pc \in {"after", "done"} /\ ck.sanitised # <<>>

\* C7: for every non-empty normalized text T and every chunk_size and
\* chunk_overlap the windows of chunkText cover T without gaps: every position
\* of T lies in a window, consecutive windows start exactly effective_size -
\* effective_overlap apart, the last window ends at the end of T, and the
\* chunks are, in order, the windows' texts without the white space at their
\* ends (a window of white space only gives no chunk).
C7_WindowsCoverText ==
    Chunked =>
        LET T == ck.sanitised
            W == ckWindows
            step == EffectiveSize(ckSize) - EffectiveOverlap(ckSize, ckOverlap)
            kept == SelectSeq(W, LAMBDA w : ~IsBlank(WindowText(T, w)))
        IN  /\ Len(W) >= 1
            /\ W[1].from = 0
            /\ \A k \in 1..Len(W) : W[k].to = W[k].from + EffectiveSize(ckSize)
            /\ \A k \in 1..(Len(W) - 1) : W[k + 1].from = W[k].from + step
            /\ W[Len(W)].to >= Len(T)
            /\ \A i \in 0..(Len(T) - 1) :
                   \E k \in 1..Len(W) : W[k].from <= i /\ i < W[k].to
            /\ Len(ck.chunks) = Len(kept)
            /\ \A k \in 1..Len(kept) :
                   IsTrimOf(ck.chunks[k].content, WindowText(T, kept[k]))

\* a text cut into three overlapping windows, one of them of white space only
C7_Witness ==
    /\ ck.pc = "done"
    /\ Len(ckWindows) = 3
    /\ Len(ck.chunks) = 2
    /\ ck.safeOverlap > 0

\* C8: for every requested chunk_size S and chunk_overlap O (S below 100, O
\* negative and O at or above S included) the window size the chunker uses is
\* at least 100 and the overlap it uses is at least 0 and less than that size.
C8_EffectiveSizeAndOverlap ==
    ck.pc \in {"loop", "after"} =>
        /\ ck.safeChunkSize >= 100
        /\ 0 <= ck.safeOverlap
        /\ ck.safeOverlap < ck.safeChunkSize
        /\ \A k \in 1..Len(ckWindows) :
               ckWindows[k].to - ckWindows[k].from >= 100
        /\ \A k \in 1..(Len(ckWindows) - 1) :
               LET overlap == ckWindows[k].to - ckWindows[k + 1].from
               IN  0 <= overlap /\ overlap < ckWindows[k].to - ckWindows[k].from

\* a requested size below 100 with an overlap above it, two windows taken
C8_Witness ==
    /\ ck.pc = "after"
    /\ ckSize < 100
    /\ ckOverlap >= ckSize
    /\ Len(ckWindows) >= 2

\* chunkText has returned for the 43 characters of Fox, chunk_size = 10 and
\* chunk_overlap = 0
FoxChunked ==
    ck.pc = "done" /\ ckContent = Fox /\ ckSize = 10 /\ ckOverlap = 0

\* C9 as stated: chunking "The quick brown fox jumps over the lazy dog" with
\* chunk_size = 10 and chunk_overlap = 0 yields 5 chunks of at most 10
\* characters each.
C9_FoxFiveChunks ==
    FoxChunked =>
        /\ Len(ck.chunks) = 5
        /\ \A k \in 1..Len(ck.chunks) : Len(ck.chunks[k].content) <= 10

\* C9 amended: chunking that text with chunk_size = 10 and chunk_overlap = 0
\* yields exactly one chunk, the whole 43-character string (the window size
\* used is 100).
C9_FoxOneChunk ==
    FoxChunked =>
        /\ Len(Fox) = 43
        /\ Len(ck.chunks) = 1
        /\ ck.chunks[1].content = Fox
        /\ Len(ckWindows) = 1

C9_Witness == FoxChunked /\ Len(ck.chunks) = 1

(***************************************************************************)
(* Properties of the store                                                 *)
(***************************************************************************)
\* the base an effect names, and the document when it names one, are in the
\* persisted store
Present(e) ==
    \E i \in 1..Len(persisted) :
        /\ persisted[i].id = e.base
        /\ \/ e.doc = 0
           \/ \E j \in 1..Len(persisted[i].documents) :
                  persisted[i].documents[j].id = e.doc

\* C1: every mutating call is an atomic read-modify-write even when it awaits
\* I/O: when an ingestFile call overlaps in time with another mutating call
\* and both resolve, the persisted store holds the bases and documents both
\* have written.
C1_OverlappingCallsKeepEffects ==
    \A e \in settled : e.overlapped => Present(e)

\* the documents of every base of a stored value
DocumentsOf(store) ==
    UNION {Range(store[i].documents) : i \in 1..Len(store)}

\* C6: in every store state reachable by a sequence of createKnowledgeBase,
\* ingestText, ingestFile and autoBuildKnowledgeBase calls no chunk of any
\* document has empty content.
C6_NoEmptyChunk ==
    \A d \in DocumentsOf(persisted) :
        \A k \in 1..Len(d.chunks) : d.chunks[k].content # <<>>

\* a stored document whose text has a window of white space only, which gave
\* no chunk
C6_Witness ==
    \E d \in DocumentsOf(persisted) :
        /\ d.raw_content = Wide
        /\ d.chunk_size = MinChunkSize
        /\ Len(d.chunks) = 2

(***************************************************************************)
(* Properties of retrieval                                                 *)
(***************************************************************************)
\* the requested top_k clamped into [1, 20], 4 when omitted
EffectiveTopK(top_k) ==
    IF top_k = Undefined THEN 4
    ELSE IF top_k[1] < 1 THEN 1
    ELSE IF top_k[1] > 20 THEN 20
    ELSE top_k[1]

\* the last call was a query that resolved
Queried == response.op = "queryKnowledgeBase" /\ response.status = "resolved"

\* C2: for every existing knowledge base, query text and requested top_k,
\* the match list returned by queryKnowledgeBase is sorted non-increasing by
\* score, is no longer than the effective top_k (the requested value clamped
\* into [1, 20], 4 when omitted) and has no entry whose score is zero or
\* negative
C2_TopKOrdering ==
    Queried =>
        /\ Len(response.value) <= EffectiveTopK(response.args.top_k)
        /\ \A i \in 1..(Len(response.value) - 1) :
               ~ScoreLess(response.value[i].score, response.value[i + 1].score)
        /\ \A i \in 1..Len(response.value) :
               /\ response.value[i].score.num > 0
               /\ response.value[i].score.den > 0

\* a query with top_k = 2 on a base holding more than two matching chunks
\* of different scores returned two matches, the better one first
C2_Witness ==
    /\ Queried
    /\ response.args.top_k = <<2>>
    /\ Len(response.value) = 2
    /\ ScoreLess(response.value[2].score, response.value[1].score)
    /\ \E i \in 1..Len(persisted) :
          /\ persisted[i].id = response.base
          /\ \E j \in 1..Len(persisted[i].documents) :
                Len(persisted[i].documents[j].chunks) > 2

\* the base that was queried holds the one text "Flowport routes inference
\* calls." and the query was "inference"
C10_Scenario ==
    /\ Queried
    /\ response.args.query = Inference
    /\ \E i \in 1..Len(persisted) :
          /\ persisted[i].id = response.base
          /\ Len(persisted[i].documents) = 1
          /\ persisted[i].documents[1].raw_content = Flowport

\* C10 as stated: the one match has a score above zero made of the
\* token_coverage and chunk_coverage terms alone, 0.3 * shared / |Q| +
\* 0.1 * shared / |C|, with no substring bonus
C10_ScoreWithoutSubstringBonus ==
    C10_Scenario =>
        LET Q == TokenSetOf(Inference)
            C == TokenSetOf(Flowport)
            shared == Cardinality(Q \cap C)
        IN  /\ Len(response.value) = 1
            /\ response.value[1].score.num > 0
            /\ response.value[1].score.num * 10 * Cardinality(Q) * Cardinality(C)
                   = (3 * shared * Cardinality(C) + shared * Cardinality(Q))
                     * response.value[1].score.den

\* C10: after ingesting "Flowport routes inference calls." into an otherwise
\* empty base, querying "inference" returns exactly one match and its score
\* is 0.925 = 0.6 + 0.3 * 1 + 0.1 * 1/4: the chunk contains the query, so
\* the substring bonus is part of the score
C10_ScoreWithSubstringBonus ==
    C10_Scenario =>
        /\ Len(response.value) = 1
        /\ response.value[1].score.num * 40 = 37 * response.value[1].score.den

\* the scenario happened and the query returned its match
C10_Witness ==
    /\ C10_Scenario
    /\ response.args.top_k = Undefined
    /\ Len(response.value) = 1
    /\ response.value[1].content = Flowport

(***************************************************************************)
(* Properties of ranking and of the calls that fail                        *)
(***************************************************************************)
\* the chunks of a document
ChunksOfDocument(d) ==
    {[document_id |-> d.id, chunk_id |-> d.chunks[k].id,
      content |-> d.chunks[k].content] : k \in 1..Len(d.chunks)}

\* the chunks of the base that was queried
QueriedChunks ==
    UNION {UNION {ChunksOfDocument(d) : d \in Range(persisted[i].documents)} :
           i \in {i \in 1..Len(persisted) : persisted[i].id = response.base}}

\* the match at position i of the answer is the chunk a
IsMatchOf(i, a) ==
    /\ response.value[i].document_id = a.document_id
    /\ response.value[i].chunk_id = a.chunk_id

\* the query was answered and has at least one alphanumeric token
QueriedWithToken == Queried /\ TokenSetOf(response.args.query) # {}

\* the score of a chunk is at least 0.6
AtLeastBonus(score) == 10 * score.num >= 6 * score.den

\* C11 as stated: a chunk whose content contains the query verbatim scores
\* at least 0.6 and is ranked strictly before every chunk of the base whose
\* content does not contain the query verbatim
C11_VerbatimRankedFirst ==
    QueriedWithToken =>
        \A a \in QueriedChunks :
            Contains(a.content, response.args.query) =>
                /\ AtLeastBonus(scoreChunk(Stripped(response.args.query), a.content))
                /\ \A i \in 1..Len(response.value) :
                       ~Contains(response.value[i].content, response.args.query)
                           => \E j \in 1..(i - 1) : IsMatchOf(j, a)

\* C11: for every query with at least one alphanumeric token, a chunk whose
\* lowercased content contains the lowercased, trimmed query scores at least
\* 0.6 and is ranked by queryKnowledgeBase strictly before every chunk of
\* the same base whose lowercased content does not contain it
C11_ContainingRankedFirst ==
    QueriedWithToken =>
        \A a \in QueriedChunks :
            Contains(toLowerCase(a.content), Folded(response.args.query)) =>
                /\ AtLeastBonus(scoreChunk(Stripped(response.args.query), a.content))
                /\ \A i \in 1..Len(response.value) :
                       ~Contains(toLowerCase(response.value[i].content),
                                 Folded(response.args.query))
                           => \E j \in 1..(i - 1) : IsMatchOf(j, a)

\* the query "knowledge base" put the text with the phrase before the text
\* that shares the one word "knowledge", which was ingested first
C11_Witness ==
    /\ Queried
    /\ response.args.query = KnowledgeBaseQuery
    /\ Len(response.value) = 2
    /\ response.value[1].content = KnowledgeBaseText
    /\ response.value[2].content = KnowledgeOnly
    /\ response.value[2].document_id < response.value[1].document_id
    /\ AtLeastBonus(response.value[1].score)
    /\ ~AtLeastBonus(response.value[2].score)

\* the base that the last call named is in the store
BaseExists == \E i \in 1..Len(persisted) : persisted[i].id = response.base

\* the last call was a query whose text is empty or white space only
BlankQuery ==
    /\ response.op = "queryKnowledgeBase"
    /\ \A k \in 1..Len(response.args.query) : response.args.query[k] \in Whitespace

\* C12: for any existing knowledge base, whatever documents it holds and
\* whatever top_k is given, queryKnowledgeBase with a query that is empty or
\* whitespace-only resolves with an empty match list
C12_BlankQueryResolvesEmpty ==
    (BlankQuery /\ BaseExists) =>
        /\ response.status = "resolved"
        /\ response.error = ""
        /\ response.value = <<>>

\* the empty query with top_k = 5 was answered on a base that holds
\* documents
C12_Witness ==
    /\ BlankQuery
    /\ response.args = [query |-> <<>>, top_k |-> <<5>>]
    /\ response.status = "resolved"
    /\ \E i \in 1..Len(persisted) :
          /\ persisted[i].id = response.base
          /\ Len(persisted[i].documents) >= 2

\* the ids of the bases in the store
StoredIds == {persisted[i].id : i \in 1..Len(persisted)}

\* C13: getKnowledgeBase, queryKnowledgeBase, ingestText and ingestFile
\* called with a knowledge-base id that is not in the store reject with the
\* not-found error whatever their other arguments are, and leave the
\* persisted store unchanged
C13_UnknownBaseIsRejected ==
    [][(/\ response'.op \in {"getKnowledgeBase", "queryKnowledgeBase",
                             "ingestText", "ingestFile"}
        /\ response'.base \notin StoredIds)
          => /\ response'.status = "rejected"
             /\ response'.error = BaseNotFound
             /\ persisted' = persisted]_vars

\* a query with an empty text named a base that is not in a store that
\* holds a base with a document, and was rejected as not found
C13_Witness ==
    /\ response.op = "queryKnowledgeBase"
    /\ response.args.query = <<>>
    /\ response.base \notin StoredIds
    /\ response.status = "rejected"
    /\ response.error = BaseNotFound
    /\ \E i \in 1..Len(persisted) : persisted[i].documents # <<>>

\* C14: createKnowledgeBase with a name that trims to empty, and ingestText
\* on an existing base with content that trims to empty, both reject with a
\* validation error and leave the persisted store exactly as it was
C14_BlankInputIsRejected ==
    [][/\ (/\ response'.op = "createKnowledgeBase"
           /\ IsBlank(response'.args.name))
          => /\ response'.status = "rejected"
             /\ response'.error = NameIsRequired
             /\ persisted' = persisted
       /\ (/\ response'.op = "ingestText"
           /\ response'.base \in StoredIds
           /\ IsBlank(response'.args.content))
          => /\ response'.status = "rejected"
             /\ response'.error = ContentIsRequired
             /\ persisted' = persisted]_vars

\* an ingestText with blank content was rejected on a base that exists and
\* already holds a document
C14_Witness ==
    /\ response.op = "ingestText"
    /\ response.args.content = Blank
    /\ response.status = "rejected"
    /\ response.error = ContentIsRequired
    /\ \E i \in 1..Len(persisted) :
          persisted[i].id = response.base /\ persisted[i].ready

(***************************************************************************)
(* Properties of ingestion                                                 *)
(***************************************************************************)
\* this step is an ingestText call that resolves: it answers with the
\* document id that was free before the step
IngestTextResolves ==
    /\ response'.op = "ingestText"
    /\ response'.status = "resolved"
    /\ response'.doc = nextId

ReadyIffHoldsDocument ==
    \A i \in 1..Len(persisted) :
        persisted[i].ready <=> persisted[i].documents # <<>>

\* this step is a createKnowledgeBase call that resolves, and the base it
\* made is not ready
CreatedNotReady ==
    (/\ response'.op = "createKnowledgeBase"
     /\ response'.status = "resolved"
     /\ response'.base = nextId)
        => \E i \in 1..Len(persisted') :
              persisted'[i].id = nextId /\ ~persisted'[i].ready

\* a base that is ready before the step is ready after it
StaysReady ==
    \A i \in 1..Len(persisted), j \in 1..Len(persisted') :
        (persisted[i].id = persisted'[j].id /\ persisted[i].ready)
            => persisted'[j].ready

\* C16: in every store state reachable by a sequence of createKnowledgeBase,
\* ingestText, ingestFile and autoBuildKnowledgeBase calls a knowledge base
\* has ready = true exactly when it holds at least one document; a base is
\* not ready right after creation, and once ready it never becomes not-ready
\* again
C16_ReadyLifecycle ==
    /\ []ReadyIffHoldsDocument
    /\ [][CreatedNotReady /\ StaysReady]_vars

\* the autoBuildKnowledgeBase call that is suspended
Build == pendingBuilds[1]

\* the position in its items of the item the suspended call ingests next
NextItem == Len(Build.body.knowledge_items) - Len(Build.items) + 1

\* the suspended autoBuildKnowledgeBase call resumes in this step, and the
\* content of its next item trims to empty
BuildMeetsBlankItem ==
    /\ pendingBuilds # <<>>
    /\ pendingBuilds' # pendingBuilds
    /\ Build.items # <<>>
    /\ IsBlank(Head(Build.items).content)

Upload == pendingFiles[1].file

\* the suspended ingestFile call resumes in this step, and its file cannot
\* be read as text or reads as empty or white space only
UploadWithoutText ==
    /\ pendingFiles # <<>>
    /\ pendingFiles' # pendingFiles
    /\ ~Upload.readable \/ IsBlank(Upload.text)

\* the text that stands for a file without text
PlaceholderOf(file) ==
    IF file.readable
    THEN <<"[","E","m","p","t","y"," ","f","i","l","e",":"," ">> \o file.name \o <<"]">>
    ELSE <<"[","B","i","n","a","r","y"," ","f","i","l","e",":"," ">> \o file.name \o <<"]">>

MutationResolved ==
    /\ response.op \in {"createKnowledgeBase", "ingestText", "ingestFile"}
    /\ response.status = "resolved"

\* getKnowledgeBase(id) resolves and shows the document doc, or the base
\* alone when doc is 0
Shows(id, doc) ==
    /\ getKnowledgeBase(persisted, id).status = "resolved"
    /\ LET detail == toDetail(persisted[findBase(loadStore(persisted), id)])
       IN  doc = 0 \/ \E j \in 1..Len(detail.documents) : detail.documents[j].id = doc

\* C19: core operations surface every error to their caller: if the write of
\* the store to persistent storage fails during createKnowledgeBase,
\* ingestText or ingestFile, the operation reports an error instead of
\* resolving successfully, so that whenever a mutating operation resolves
\* successfully a following getKnowledgeBase of the same id shows its effect
C19_ResolvedMutationIsStored ==
    MutationResolved => Shows(response.base, response.doc)

\* a stored document carries the whole chunk sequence of its content
Complete(d) ==
    /\ d.chunks # <<>>
    /\ d.chunks = chunkText(d.raw_content, d.chunk_size, d.chunk_overlap)

\* a document that is in the store before and after the step is the same
DocumentsAreImmutable ==
    \A d \in DocumentsOf(persisted), e \in DocumentsOf(persisted') :
        d.id = e.id => d = e

\* C20: a reader of the persisted store at any point of any interleaving of
\* operations never observes a partially written document: every document
\* visible in the store already carries its complete chunk sequence, and a
\* document and its chunks become visible in one single storage write
C20_DocumentsAreWrittenWhole ==
    /\ [](\A d \in DocumentsOf(persisted) : Complete(d))
    /\ [][DocumentsAreImmutable]_vars

\* a document written by a call that overlapped with an ingestFile call is
\* in the store next to another document, both with their chunks
C20_Witness ==
    /\ \E e \in settled : e.overlapped /\ e.doc # 0 /\ Present(e)
    /\ \E i \in 1..Len(persisted) : Len(persisted[i].documents) = 2
    /\ \A d \in DocumentsOf(persisted) : Complete(d)

(***************************************************************************)
(* Playground page                                                         *)
(***************************************************************************)
\* Two pages are modelled: the one of src/unnamed/part_001, which keeps a
\* list of saved models (page "models"), and pages/Playground.tsx, which
\* keeps one configuration per provider (page "providers").  playground
\* holds the React state of the mounted page, the runInference calls in
\* flight and the dependencies its effects have last run for.
\*
\* A handler runs to its end in one step.  handleSubmit of part_001 awaits
\* getKnowledgeBaseAttachments before it sets isSending; that promise is
\* already resolved (Promise.resolve), so the rest runs as a microtask of
\* the same event, before the browser dispatches another event, and the
\* state it sets is rendered with it.
MaxModelIds == 2
MaxMessages == 3

ModelProviders == {"openai", "gemini"}
PageProviders == {"huggingface", "openai"}

Null == "null"
EnterAMessage == "Enter a message to send to the model"
AddYourApiKey == "Add your API key to continue"
ParametersMustBeJson == "Parameters must be valid JSON"
InferenceFailed == "Inference failed"

ValidJson == <<"{", "}">>
BrokenJson == <<"{">>

\* JSON.parse(text) returns
parses(text) == text = ValidJson

\* { role: 'assistant', content: WELCOME_MESSAGES[provider] }
welcome(provider) == [role |-> "assistant", content |-> <<"welcome", provider>>]

\* extractAssistantText(response), whatever the text is
AssistantText == <<"reply">>

\* the ids generateId() can give: a random id is none of those the page
\* holds; which of the others it is makes no difference to the page
usedIds(pg) ==
    {model.id : model \in Range(pg.models)} \cup {pg.selectedModelId}
        \cup (IF pg.deps = <<>> THEN {}
              ELSE {model.id : model \in Range(pg.deps[1].models)}
                       \cup {pg.deps[1].selectedModelId})
freshIds(pg) == (1..MaxModelIds) \ usedIds(pg)
generateId(pg) == Min(freshIds(pg))

\* createBlankModel(label) with the id generateId() gives
createBlankModel(id) ==
    [id |-> id, provider |-> "openai", apiKey |-> <<>>, parameters |-> ValidJson]

\* models.find((model) => model.id === selectedModelId) ?? null: the
\* position of the model, 0 for null
currentModel(pg) ==
    IF \E i \in 1..Len(pg.models) : pg.models[i].id = pg.selectedModelId
    THEN CHOOSE i \in 1..Len(pg.models) :
             /\ pg.models[i].id = pg.selectedModelId
             /\ \A j \in 1..(i - 1) : pg.models[j].id # pg.selectedModelId
    ELSE 0

\* the values of the dependency lists of the effects
depsOf(pg) ==
    IF pg.page = "models"
    THEN [models |-> pg.models, selectedModelId |-> pg.selectedModelId,
          currentModelId |-> IF currentModel(pg) = 0 THEN 0
                             ELSE pg.models[currentModel(pg)].id]
    ELSE [provider |-> pg.provider]

\* every effect has run for the state that is rendered
EffectsRun(pg) == pg.deps = <<depsOf(pg)>>

fallbackOnlyWhenEmpty(pg, id) ==
    IF pg.models = <<>>
    THEN [pg EXCEPT !.models = <<createBlankModel(id)>>,
                    !.selectedModelId = id]
    ELSE pg

\* the effect on [models, selectedModelId] of part_001
fallback(pg, id) ==
    IF pg.models = <<>>
    THEN [pg EXCEPT !.models = <<createBlankModel(id)>>,
                    !.selectedModelId = id]
    ELSE IF pg.selectedModelId = 0 \/ currentModel(pg) = 0
    THEN [pg EXCEPT !.selectedModelId = pg.models[1].id]
    ELSE pg

\* the effects of part_001 that run after a render, in their order: they
\* read the rendered state pg, and what they set is rendered together
modelsEffects(pg, id) ==
    LET old == pg.deps
        new == depsOf(pg)
        fallbackRuns == \/ old = <<>>
                        \/ old[1].models # new.models
                        \/ old[1].selectedModelId # new.selectedModelId
        resetRuns == old = <<>> \/ old[1].currentModelId # new.currentModelId
        afterFallback == IF fallbackRuns THEN fallback(pg, id) ELSE pg
        afterReset ==
            IF resetRuns /\ currentModel(pg) # 0
            THEN [afterFallback EXCEPT
                     !.messages = <<welcome(pg.models[currentModel(pg)].provider)>>,
                     !.inputValue = <<>>,
                     !.error = Null]
            ELSE afterFallback
    IN  [afterReset EXCEPT !.deps = <<new>>]

\* the effect on [provider] of pages/Playground.tsx
providersEffects(pg) ==
    LET old == pg.deps
        new == depsOf(pg)
        resetRuns == old = <<>> \/ old[1].provider # new.provider
        afterReset == IF resetRuns
                      THEN [pg EXCEPT !.messages = <<welcome(pg.provider)>>,
                                      !.error = Null]
                      ELSE pg
    IN  [afterReset EXCEPT !.deps = <<new>>]

\* handleCreateModel: React runs the updater within setModels when no update
\* is pending on the component, and created is set; otherwise it runs the
\* updater with the next render, created is still null after setModels and
\* the selection stays
handleCreateModel(pg, id, eager) ==
    [pg EXCEPT !.models = Append(@, createBlankModel(id)),
               !.selectedModelId = IF eager THEN id ELSE @]

\* handleDeleteModel(id)
handleDeleteModel(pg, id) ==
    [pg EXCEPT !.models = SelectSeq(@, LAMBDA model : model.id # id)]

\* updateSelectedModel(patch)
updateSelectedModel(pg, patch) ==
    IF currentModel(pg) = 0 THEN pg
    ELSE LET id == pg.models[currentModel(pg)].id
         IN  [pg EXCEPT !.models =
                 [i \in 1..Len(pg.models) |->
                     IF pg.models[i].id = id
                     THEN [f \in DOMAIN pg.models[i] |->
                              IF f \in DOMAIN patch THEN patch[f] ELSE pg.models[i][f]]
                     ELSE pg.models[i]]]

\* handleProviderChange(next) of part_001
handleProviderChange(pg, next) ==
    updateSelectedModel(pg, [provider |-> next, parameters |-> ValidJson])

\* the provider, the API key and the parameters the submit handler reads
providerOf(pg) ==
    IF pg.page = "models" THEN pg.models[currentModel(pg)].provider ELSE pg.provider
apiKeyOf(pg) ==
    IF pg.page = "models" THEN pg.models[currentModel(pg)].apiKey ELSE pg.apiKeys[pg.provider]
parametersOf(pg) ==
    IF pg.page = "models" THEN pg.models[currentModel(pg)].parameters
    ELSE pg.parameters[pg.provider]

\* resetConversation
resetConversation(pg) ==
    IF pg.page = "models" /\ currentModel(pg) = 0 THEN pg
    ELSE [pg EXCEPT !.messages = <<welcome(providerOf(pg))>>,
                    !.inputValue = <<>>,
                    !.error = Null]

handleSubmitWhileSending(pg) ==
    IF pg.page = "models" /\ currentModel(pg) = 0 THEN pg
    ELSE IF trim(pg.inputValue) = <<>> THEN [pg EXCEPT !.error = EnterAMessage]
    ELSE IF trim(apiKeyOf(pg)) = <<>> THEN [pg EXCEPT !.error = AddYourApiKey]
    ELSE IF trim(parametersOf(pg)) # <<>> /\ ~parses(trim(parametersOf(pg)))
    THEN [pg EXCEPT !.error = ParametersMustBeJson]
    ELSE LET nextMessages == Append(pg.messages,
                                    [role |-> "user", content |-> trim(pg.inputValue)])
         IN  [pg EXCEPT !.messages = nextMessages,
                        !.inputValue = <<>>,
                        !.isSending = TRUE,
                        !.error = Null,
                        !.requests = Append(@, [provider |-> providerOf(pg),
                                                messages |-> nextMessages])]

\* handleSubmit, up to the await of runInference(body)
handleSubmit(pg) ==
    IF pg.isSending \/ (pg.page = "models" /\ currentModel(pg) = 0) THEN pg
    ELSE IF trim(pg.inputValue) = <<>> THEN [pg EXCEPT !.error = EnterAMessage]
    ELSE IF trim(apiKeyOf(pg)) = <<>> THEN [pg EXCEPT !.error = AddYourApiKey]
    ELSE IF trim(parametersOf(pg)) # <<>> /\ ~parses(trim(parametersOf(pg)))
    THEN [pg EXCEPT !.error = ParametersMustBeJson]
    ELSE LET nextMessages == Append(pg.messages,
                                    [role |-> "user", content |-> trim(pg.inputValue)])
         IN  [pg EXCEPT !.messages = nextMessages,
                        !.inputValue = <<>>,
                        !.isSending = TRUE,
                        !.error = Null,
                        !.requests = Append(@, [provider |-> providerOf(pg),
                                                messages |-> nextMessages])]

\* prev.slice(0, -1)
allButLast(prev) == SubSeq(prev, 1, Len(prev) - 1)

\* handleSubmit from the point where the runInference call at position i of
\* those in flight settles: the try, the catch and the finally
handleSubmitSettled(pg, i, fulfilled) ==
    LET done == [pg EXCEPT !.requests = Remove(@, i), !.isSending = FALSE]
    IN  IF fulfilled
        THEN [done EXCEPT !.messages =
                 Append(@, [role |-> "assistant", content |-> AssistantText])]
        ELSE [done EXCEPT !.error = InferenceFailed,
                          !.messages = allButLast(@)]

\* handleProviderSelect(next) of pages/Playground.tsx
handleProviderSelect(pg, next) == [pg EXCEPT !.provider = next]

\* handleApiKeyChange(id, value) of pages/Playground.tsx
handleApiKeyChange(pg, id, value) == [pg EXCEPT !.apiKeys[id] = value]

\* handleParametersChange(id, value) of pages/Playground.tsx
handleParametersChange(pg, id, value) == [pg EXCEPT !.parameters[id] = value]

\* the texts typed into the message box, into the API key field and into
\* the parameters field
InputTexts == {<<" ">>, <<"h", "i">>}
ApiKeyTexts == {<<>>, <<"k">>}
ParameterTexts == {ValidJson, BrokenJson}

\* what loadStoredModels() returns, or the blank model in place of nothing
InitialModelLists ==
    {<<createBlankModel(1)>>,
     <<[id |-> 1, provider |-> "gemini", apiKey |-> <<"k">>, parameters |-> ValidJson],
       [id |-> 2, provider |-> "openai", apiKey |-> <<>>, parameters |-> BrokenJson]>>}

\* what loadStoredApiKeys() returns
InitialApiKeys ==
    {[p \in PageProviders |-> <<>>],
     [p \in PageProviders |-> IF p = "openai" THEN <<"k">> ELSE <<>>]}

\* the state of part_001 at its first render
modelsPage(initialModels) ==
    [page |-> "models",
     models |-> initialModels,
     selectedModelId |-> initialModels[1].id,
     messages |-> <<welcome(initialModels[1].provider)>>,
     inputValue |-> <<>>,
     isSending |-> FALSE,
     error |-> Null,
     requests |-> <<>>,
     deps |-> <<>>,
     event |-> "mount"]

\* the state of pages/Playground.tsx at its first render
providersPage(apiKeys) ==
    [page |-> "providers",
     provider |-> "huggingface",
     apiKeys |-> apiKeys,
     parameters |-> [p \in PageProviders |-> ValidJson],
     messages |-> <<welcome("huggingface")>>,
     inputValue |-> <<>>,
     isSending |-> FALSE,
     error |-> Null,
     requests |-> <<>>,
     deps |-> <<>>,
     event |-> "mount"]

InitPlayground ==
    /\ IdleScore
    /\ IdleChunk
    /\ IdleStore
    /\ playground \in {modelsPage(initialModels) : initialModels \in InitialModelLists}
                         \cup {providersPage(apiKeys) : apiKeys \in InitialApiKeys}

\* The browser dispatches an event when the effects of the last render have
\* run: a render that a click or a key caused runs its effects, and renders
\* what they set, before the event is over.
Dispatch(event, pg) ==
    /\ EffectsRun(playground)
    /\ playground' = [pg EXCEPT !.event = event]
    /\ UNCHANGED <<scoreVars, chunkVars, storeVars>>

OnModels == playground.page = "models"
OnProviders == playground.page = "providers"

\* the effects of the last render run
RunEffects ==
    /\ playground.page \in {"models", "providers"}
    /\ ~EffectsRun(playground)
    /\ OnModels /\ playground.models = <<>> => freshIds(playground) # {}
    /\ playground' =
          [(IF OnModels
            THEN modelsEffects(playground,
                               IF playground.models = <<>> THEN generateId(playground) ELSE 0)
            ELSE providersEffects(playground)) EXCEPT !.event = playground.event]
    /\ UNCHANGED <<scoreVars, chunkVars, storeVars>>

\* onChange of the message box: setInputValue(event.target.value)
InputChange ==
    /\ playground.page \in {"models", "providers"}
    /\ \E value \in InputTexts :
          Dispatch("other", [playground EXCEPT !.inputValue = value])

\* "New model"
CreateModel ==
    /\ OnModels
    /\ freshIds(playground) # {}
    /\ \E eager \in BOOLEAN :
          Dispatch("other", handleCreateModel(playground, generateId(playground), eager))

\* "Delete" of a saved model
DeleteModel ==
    /\ OnModels
    /\ \E model \in Range(playground.models) :
          Dispatch("delete", handleDeleteModel(playground, model.id))

\* click on a saved model: setSelectedModelId(model.id)
SelectModel ==
    /\ OnModels
    /\ \E model \in Range(playground.models) :
          Dispatch("other", [playground EXCEPT !.selectedModelId = model.id])

\* onChange of the provider of the selected model
ProviderChange ==
    /\ OnModels
    /\ \E next \in ModelProviders :
          Dispatch("other", handleProviderChange(playground, next))

\* onChange of the API key and of the parameters of the selected model
ModelChange ==
    /\ OnModels
    /\ \/ \E value \in ApiKeyTexts :
             Dispatch("other", updateSelectedModel(playground, [apiKey |-> value]))
       \/ \E value \in ParameterTexts :
             Dispatch("other", updateSelectedModel(playground, [parameters |-> value]))

\* click on a provider, or focus of one of its fields
ProviderSelect ==
    /\ OnProviders
    /\ \E next \in PageProviders :
          Dispatch("other", handleProviderSelect(playground, next))

\* onChange of the API key and of the parameters of a provider
ProviderFieldChange ==
    /\ OnProviders
    /\ \E id \in PageProviders :
          \/ \E value \in ApiKeyTexts :
                Dispatch("other", handleApiKeyChange(playground, id, value))
          \/ \E value \in ParameterTexts :
                Dispatch("other", handleParametersChange(playground, id, value))

\* "Reset conversation"
ResetConversation ==
    /\ playground.page \in {"models", "providers"}
    /\ Dispatch("other", resetConversation(playground))

\* onSubmit of the form
Submit ==
    /\ playground.page \in {"models", "providers"}
    /\ playground.isSending \/ Len(playground.messages) + 2 <= MaxMessages
    /\ Dispatch("submit", handleSubmit(playground))

\* handleKeyDown of the message box with Enter and no shift key
KeyDown ==
    /\ playground.page \in {"models", "providers"}
    /\ playground.isSending \/ Len(playground.messages) + 2 <= MaxMessages
    /\ Dispatch("keydown", handleSubmit(playground))

\* a runInference call settles
Settle ==
    /\ playground.page \in {"models", "providers"}
    /\ \E i \in 1..Len(playground.requests), fulfilled \in BOOLEAN :
          Dispatch("other", handleSubmitSettled(playground, i, fulfilled))

\* the conversation, on either page and with every change of the model or
\* the provider it is held with
NextChat ==
    \/ RunEffects
    \/ InputChange
    \/ SelectModel
    \/ ProviderChange
    \/ ModelChange
    \/ ProviderSelect
    \/ ProviderFieldChange
    \/ ResetConversation
    \/ Submit
    \/ KeyDown
    \/ Settle

SpecChat == InitPlayground /\ [][NextChat]_vars

\* the list of saved models of part_001
InitModels == InitPlayground /\ OnModels

NextModels ==
    \/ RunEffects
    \/ CreateModel
    \/ DeleteModel
    \/ SelectModel
    \/ ProviderChange

SpecModels == InitModels /\ [][NextModels]_vars

(***************************************************************************)
(* Properties of the calls that read the whole store                       *)
(***************************************************************************)
Listed == response.op = "listKnowledgeBases"

\* the number of chunks a base holds
ChunkCountOf(base) == Cardinality(UNION {ChunksOfDocument(d) : d \in Range(base.documents)})

\* the summary describes this base
Summarises(summary, base) ==
    /\ summary.id = base.id
    /\ summary.name = base.name
    /\ summary.document_count = Len(base.documents)
    /\ summary.chunk_count = ChunkCountOf(base)
    /\ summary.updated_at = base.updated_at
    /\ summary.ready = base.ready

\* C21: listKnowledgeBases resolves with exactly one summary per stored
\* base, and no summary stands before one of a later updated_at, also when
\* several bases have the same updated_at
C21_ListIsCompleteAndNewestFirst ==
    Listed =>
        /\ response.status = "resolved"
        /\ Len(response.value) = Len(persisted)
        /\ \A i \in 1..Len(persisted) :
              Cardinality({k \in 1..Len(response.value) :
                              Summarises(response.value[k], persisted[i])}) = 1
        /\ \A k, l \in 1..Len(response.value) :
              k < l => response.value[k].updated_at >= response.value[l].updated_at

\* three bases are listed, two of one updated_at and a later one that the
\* store holds last and the list shows first
C21_Witness ==
    /\ Listed
    /\ Len(persisted) = 3
    /\ persisted[1].updated_at = persisted[2].updated_at
    /\ persisted[3].updated_at > persisted[2].updated_at
    /\ response.value[1].id = persisted[3].id

Attached == response.op = "getKnowledgeBaseAttachments"

\* the requested ids that are ids of stored bases, in the order requested
KnownIds(ids) == SelectSeq(ids, LAMBDA id : id \in StoredIds)

\* the attachment carries every document of this base with its chunk list
Carries(attachment, base) ==
    /\ attachment.id = base.id
    /\ Len(attachment.documents) = Len(base.documents)
    /\ \A j \in 1..Len(base.documents) :
          /\ attachment.documents[j].id = base.documents[j].id
          /\ attachment.documents[j].chunks = base.documents[j].chunks

\* C22: getKnowledgeBaseAttachments(ids) resolves in every case, with one
\* attachment for each requested id of a stored base, in the order of the
\* request, and nothing for the other ids; an attachment carries every
\* document of its base with the document's stored chunk list
C22_AttachmentsFollowRequest ==
    Attached =>
        /\ response.status = "resolved"
        /\ Len(response.value) = Len(KnownIds(response.args))
        /\ \A k \in 1..Len(response.value) :
              \E i \in 1..Len(persisted) :
                  /\ persisted[i].id = KnownIds(response.args)[k]
                  /\ Carries(response.value[k], persisted[i])

\* the request names an id of no base and then, against the order of the
\* store, a base that holds a document of several chunks and an earlier base
C22_Witness ==
    /\ Attached
    /\ Len(response.args) = 3
    /\ response.args[1] \notin StoredIds
    /\ \E a, b \in 1..Len(persisted) :
          /\ a < b
          /\ \E d \in Range(persisted[b].documents) : Len(d.chunks) > 1
          /\ SubSeq(response.args, 2, 3) = <<persisted[b].id, persisted[a].id>>
    /\ Len(response.value) = 2

(***************************************************************************)
(* Properties of what a document records                                   *)
(***************************************************************************)
\* C23: for every stored document the chunk_size and the chunk_overlap in
\* its metadata are the window size and the overlap the chunker used for
\* its chunks, whatever was requested (a negative overlap included)
C23_MetadataRecordsUsedWindow ==
    \A d \in DocumentsOf(persisted) :
        /\ d.metadata.chunk_size = EffectiveSize(d.chunk_size)
        /\ d.metadata.chunk_overlap = EffectiveOverlap(d.chunk_size, d.chunk_overlap)

(***************************************************************************)
(* Properties of the match list                                            *)
(***************************************************************************)
\* the last call was a query of some non-blank text that resolved
QueriedForText == Queried /\ ~IsBlank(response.args.query)

\* the score of a chunk of the queried base under the query as sent
ScoreOf(a) == scoreChunk(Stripped(response.args.query), a.content)

\* the chunks of the queried base that score above 0
Scoring == {a \in QueriedChunks : ScoreOf(a).num > 0}

\* the chunks in the answer
Answered == {a \in QueriedChunks : \E k \in 1..Len(response.value) : IsMatchOf(k, a)}

\* C24: for a non-empty query on an existing base the match list consists of
\* min(effective top_k, n) different chunks out of the n chunks of the base
\* that score above 0, each with its score, in descending score order, and
\* no chunk left out scores strictly higher than a chunk in the list; a
\* base without documents gives an empty list
C24_MatchesAreBestScoring ==
    QueriedForText =>
        /\ Len(response.value) =
               MinOf(EffectiveTopK(response.args.top_k), Cardinality(Scoring))
        /\ Cardinality(Answered) = Len(response.value)
        /\ Answered \subseteq Scoring
        /\ \A k \in 1..Len(response.value) :
              \E a \in Scoring :
                  /\ IsMatchOf(k, a)
                  /\ response.value[k].content = a.content
                  /\ ScoreEq(response.value[k].score, ScoreOf(a))
        /\ \A k, l \in 1..Len(response.value) :
              k < l => ~ScoreLess(response.value[k].score, response.value[l].score)
        /\ \A a \in Scoring \ Answered :
              \A k \in 1..Len(response.value) :
                  ~ScoreLess(response.value[k].score, ScoreOf(a))
        /\ QueriedChunks = {} => response.value = <<>>

\* a query with top_k 0 on a base with three scoring chunks in two documents
\* is answered with one match, from the second document, and the chunks
\* left out score less
C24_Witness ==
    /\ QueriedForText
    /\ response.args.top_k = <<0>>
    /\ Cardinality(Scoring) >= 3
    /\ Len(response.value) = 1
    /\ \E i \in 1..Len(persisted) :
          /\ persisted[i].id = response.base
          /\ Len(persisted[i].documents) = 2
          /\ response.value[1].document_id = persisted[i].documents[2].id
    /\ \A a \in Scoring \ Answered : ScoreLess(ScoreOf(a), response.value[1].score)

\* in the queried base the chunk x comes before the chunk y in the order of
\* iteration: its document was inserted earlier, or it is an earlier chunk
\* of the same document
IteratedBefore(x, y) ==
    \E i \in 1..Len(persisted) :
        /\ persisted[i].id = response.base
        /\ \E j1, j2 \in 1..Len(persisted[i].documents) :
              LET d1 == persisted[i].documents[j1]
                  d2 == persisted[i].documents[j2]
              IN  /\ d1.id = x.document_id
                  /\ d2.id = y.document_id
                  /\ \E c1 \in 1..Len(d1.chunks), c2 \in 1..Len(d2.chunks) :
                        /\ d1.chunks[c1].id = x.chunk_id
                        /\ d2.chunks[c2].id = y.chunk_id
                        /\ j1 < j2 \/ (j1 = j2 /\ c1 < c2)

\* C25: matches of equal score stand in the order of iteration of the store
\* (documents in insertion order, chunks in chunk order), and a chunk left
\* out with the score of a match comes after that match in this order; with
\* the descending order of scores this fixes the match sequence for a store
\* state and a query
C25_TiesInIterationOrder ==
    Queried =>
        /\ \A k, l \in 1..Len(response.value) :
              (k < l /\ ScoreEq(response.value[k].score, response.value[l].score))
                  => IteratedBefore(response.value[k], response.value[l])
        /\ \A a \in Scoring \ Answered :
              \A k \in 1..Len(response.value) :
                  ScoreEq(response.value[k].score, ScoreOf(a))
                      => IteratedBefore(response.value[k], a)

\* the answer holds two matches of one score from different documents and
\* two matches of one score from the same document, and a chunk of the
\* last score is left out
C25_Witness ==
    /\ Queried
    /\ Len(response.value) = 4
    /\ ScoreEq(response.value[1].score, response.value[2].score)
    /\ response.value[1].document_id # response.value[2].document_id
    /\ ScoreEq(response.value[3].score, response.value[4].score)
    /\ response.value[3].document_id = response.value[4].document_id
    /\ \E a \in Scoring \ Answered : ScoreEq(response.value[4].score, ScoreOf(a))

(***************************************************************************)
(* Properties of the chunker's loop                                        *)
(***************************************************************************)
\* chunkText has returned
Returned == ck.pc = "done"

\* the step between windows is at least 1
StepAtLeastOne == ck.pc \in {"loop", "after"} => ck.step >= 1

\* every window starts after the window before it and inside the text
WindowsAdvance ==
    /\ \A k \in 1..(Len(ckWindows) - 1) : ckWindows[k + 1].from > ckWindows[k].from
    /\ \A k \in 1..Len(ckWindows) : ckWindows[k].from < Len(ck.sanitised)
    /\ Len(ckWindows) <= Len(ck.sanitised)

\* an iteration that stays in the loop has moved the offset forward
OffsetIncreases == (ck.pc = "loop" /\ ck'.pc = "loop") => ck'.index > ck.index

\* C26: chunkText returns for every content, chunk_size and chunk_overlap:
\* the step is at least 1, the offset grows with every iteration, so there
\* are at most as many windows as the text has characters, and the call
\* reaches its return
C26_ChunkTextTerminates ==
    /\ (ck.pc = "input") ~> Returned
    /\ [](StepAtLeastOne /\ WindowsAdvance)
    /\ [][OffsetIncreases]_vars

\* chunkText has returned after more than 100 windows taken with step 1: the
\* requested overlap was above the requested size
C26_Witness ==
    /\ Returned
    /\ ckOverlap > ckSize
    /\ ck.step = 1
    /\ Len(ckWindows) > 100

\* the quotient a / b rounded up, for a >= 0 and b > 0
CeilDiv(a, b) == (a + b - 1) \div b

\* the end of a window within a text of length L
EndWithin(w, L) == MinOf(w.to, L)

\* C27: the chunker takes no window after one that ends at or past the end
\* of the normalized text: a text of length L with window size S and step s
\* is cut into 1 window when L <= S and into ceil((L - S) / s) + 1 windows
\* otherwise, and every window ends after the window before it
C27_StopsAtFirstWindowReachingEnd ==
    Chunked =>
        LET L == Len(ck.sanitised)
            W == ckWindows
            S == EffectiveSize(ckSize)
            s == S - EffectiveOverlap(ckSize, ckOverlap)
        IN  /\ \A k \in 1..(Len(W) - 1) : W[k].to < L
            /\ W[Len(W)].to >= L
            /\ Len(W) = IF L <= S THEN 1 ELSE CeilDiv(L - S, s) + 1
            /\ \A k \in 1..(Len(W) - 1) :
                   /\ W[k + 1].from > W[k].from
                   /\ EndWithin(W[k + 1], L) > EndWithin(W[k], L)

\* a text longer than the window was cut into three or more overlapping
\* windows and the last one reaches past the end of the text
C27_Witness ==
    /\ ck.pc = "done"
    /\ Len(ck.sanitised) > ck.safeChunkSize
    /\ ck.safeOverlap > 0
    /\ (Len(ck.sanitised) - ck.safeChunkSize) % ck.step # 0
    /\ Len(ckWindows) >= 3
    /\ ckWindows[Len(ckWindows)].to > Len(ck.sanitised)

(***************************************************************************)
(* Properties of the Playground conversation                               *)
(***************************************************************************)
Mounted == playground.page \in {"models", "providers"}

\* a runInference call has been made and has not settled
InFlight == Mounted /\ playground.requests # <<>>

\* the number of user messages in a conversation
UserMessages(messages) ==
    Cardinality({i \in 1..Len(messages) : messages[i].role = "user"})

\* the submit handler would find nothing wrong with the input, the API key
\* and the parameters
PassesValidation ==
    /\ OnModels => currentModel(playground) # 0
    /\ trim(playground.inputValue) # <<>>
    /\ trim(apiKeyOf(playground)) # <<>>
    /\ parses(trim(parametersOf(playground)))

\* C28: in the Playground chat at most one runInference call is in flight
\* at any time, and while one is in flight no step, a form submit and an
\* Enter key included, makes another call or adds a user message
C28_OneRequestInFlight ==
    /\ [](Mounted => Len(playground.requests) <= 1)
    /\ [][InFlight =>
            /\ Len(playground'.requests) <= Len(playground.requests)
            /\ UserMessages(playground'.messages) <= UserMessages(playground.messages)]_vars

\* with a call in flight a new message was typed and Enter was pressed; the
\* handler would have accepted it, and there is still one call and one
\* user message
C28_Witness ==
    /\ InFlight
    /\ playground.event = "keydown"
    /\ PassesValidation
    /\ Len(playground.requests) = 1
    /\ UserMessages(playground.messages) = 1

\* the first message of a conversation, for some provider
IsWelcome(message) ==
    message \in {welcome(provider) : provider \in ModelProviders \cup PageProviders}

\* this step is the catch of the runInference call at position i
Rejects(i) ==
    /\ i \in 1..Len(playground.requests)
    /\ playground'.requests = Remove(playground.requests, i)
    /\ playground'.error = InferenceFailed

\* the user message the submit of a call appended
Submitted(request) == request.messages[Len(request.messages)]

\* C29: in the Playground chat a rejected runInference call removes from the
\* conversation exactly the user message its submit appended, whatever
\* model switch, provider switch or reset happened in between, and the
\* conversation always begins with the welcome message and is never empty
C29_RejectionRemovesOwnMessage ==
    /\ [](Mounted => /\ playground.messages # <<>>
                     /\ IsWelcome(playground.messages[1]))
    /\ [][\A i \in 1..Len(playground.requests) :
             Rejects(i) =>
                playground.messages =
                    Append(playground'.messages, Submitted(playground.requests[i]))]_vars

(***************************************************************************)
(* Properties of the list of saved models                                   *)
(***************************************************************************)
ModelIds == {model.id : model \in Range(playground.models)}

\* no effect of part_001 is pending
EffectsHaveRun == OnModels /\ EffectsRun(playground)

\* this step runs the pending effects of part_001
EffectsStep == OnModels /\ ~EffectsRun(playground) /\ playground' # playground

\* C30: whatever models were created, deleted and selected, once the
\* pending effects have run the list of saved models is not empty and the
\* selected id is the id of a model of the list; the effects give an empty
\* list one fresh default model and select it, and replace a selection that
\* is not in the list by the first model of the list
C30_SelectionIsValidOnceEffectsRan ==
    /\ [](EffectsHaveRun => /\ playground.models # <<>>
                            /\ playground.selectedModelId \in ModelIds)
    /\ [][EffectsStep /\ playground.models = <<>> =>
            /\ Len(playground'.models) = 1
            /\ playground'.models[1] = createBlankModel(playground'.selectedModelId)
            /\ playground'.selectedModelId \notin usedIds(playground)]_vars
    /\ [][EffectsStep /\ playground.models # <<>>
                      /\ playground.selectedModelId \notin ModelIds =>
            /\ playground'.models = playground.models
            /\ playground'.selectedModelId = playground.models[1].id]_vars

\* the last model was deleted and the effects have run for the empty list:
\* the list holds one default model, which is selected
C30_Witness ==
    /\ OnModels
    /\ playground.event = "delete"
    /\ playground.deps # <<>>
    /\ playground.deps[1].models = <<>>
    /\ Len(playground.models) = 1
    /\ playground.selectedModelId = playground.models[1].id

=============================================================================
